---- MODULE Spec2Model ----
(***************************************************************************)
(* quant-estate: the index crawler (ImmobiliareIdScraper over              *)
(* SeleniumScraper) writing listing identities through the Storage         *)
(* implementations MongoDBStorage and FileStorage.                         *)
(*                                                                         *)
(* A listing identity is represented by its computed id (an element of     *)
(* Ids).  The MongoDB collection is a multiset of ids, since nothing but   *)
(* the unique index keeps two documents with the same id apart.            *)
(***************************************************************************)
EXTENDS Integers, Sequences, FiniteSets, TLC

\* ---------------------------------------------------------------- bounds
MaxId == 2            \* distinct listing ids the site serves
MaxBatch == 2         \* documents in one append call issued directly
MaxCards == 1         \* listing cards on one result page
MaxCalls == 2         \* append calls issued one after the other
MaxOverlap == 1       \* append calls each of two concurrent instances issues
MaxIter == 3          \* page iterations of one crawl run
MaxSetting == 2       \* largest max_pages value tried; listing_limit goes one further

Ids == 1 .. MaxId
Batches == UNION {[1 .. n -> Ids] : n \in 0 .. MaxBatch}
\* The DocumentStorage instances of two crawler instances that write to the
\* same collection; 1 is the one handed to the scraper modelled below.
Stores == {1, 2}

Range(q) == {q[k] : k \in 1 .. Len(q)}
Occurrences(q, i) == Cardinality({k \in 1 .. Len(q) : q[k] = i})
Distinct(q) == \A j, k \in 1 .. Len(q) : j # k => q[j] # q[k]
Stored(c) == {i \in Ids : c[i] > 0}

VARIABLES
    coll,        \* collection_ids: id -> number of documents carrying it
    docRev,      \* id -> the append_data call whose item is the stored
                 \* document with that id (the first one, when several)
    hasIndex,    \* the collection has the unique index on "id"
    mstate,      \* per DocumentStorage: "new", "ready", "failed" (__init__ raised)
    op,          \* per DocumentStorage: the append_data call in progress
    clients,     \* per DocumentStorage: MongoClients opened and not yet closed
    counted,     \* id -> number of returned counts that included it
    calls        \* per DocumentStorage: append_data calls issued directly

storageVars == <<coll, docRev, hasIndex, mstate, op, clients, counted, calls>>

IdleOp ==
    [phase |-> "idle", batch |-> <<>>, idx |-> 1, ins |-> <<>>, errs |-> 0,
     rejected |-> 0,
     result |-> 0, pre |-> {}, collStart |-> [i \in Ids |-> 0], rev |-> 0]

\* ------------------------------------------------ MongoDBStorage helpers

\* _get_client: the client is opened before the body runs ...
OpenClient(n) == n + 1

\* (variant: close() after the yield without try/finally, so that a body
\* that raises skips it)
CloseClient_OnSuccessOnly(n, raised) == IF raised THEN n ELSE n - 1

\* ... and the finally clause closes it whether or not the body raised.
CloseClient(n, raised) == n - 1

\* create_index("id", unique=True): a no-op when the index exists, builds it
\* when no id is duplicated, and fails otherwise or when the server cannot
\* be reached.
create_index(has, c, reachable) ==
    IF ~reachable THEN [ok |-> FALSE, has |-> has]
    ELSE IF has THEN [ok |-> TRUE, has |-> TRUE]
    ELSE IF \A i \in Ids : c[i] <= 1 THEN [ok |-> TRUE, has |-> TRUE]
    ELSE [ok |-> FALSE, has |-> FALSE]

\* _ensure_indexes: a failure of create_index is logged as a warning and
\* the constructor carries on.
ensure_indexes(has, c, reachable) == create_index(has, c, reachable).has

\* The server's verdict on one document of insert_many: a duplicate-key
\* write error exactly when the unique index exists and the id is stored.
DuplicateKey(has, c, d) == has /\ c[d] > 0

\* (variant: insert_many with the default ordered=True, which stops at the
\* first write error)
ContinuesAfterError_Ordered == FALSE

\* insert_many(ordered=False) goes on to the next document after a write
\* error.
ContinuesAfterError == TRUE

\* ------------------------------------------------ MongoDBStorage actions

\* __init__: _test_connection raises StorageError when the ping fails;
\* _ensure_indexes never raises.
MongoDBStorage_init(s) ==
    /\ mstate[s] = "new"
    /\ \E pingOk \in BOOLEAN, reachable \in BOOLEAN :
         IF ~pingOk
         THEN /\ mstate' = [mstate EXCEPT ![s] = "failed"]
              /\ clients' = [clients EXCEPT ![s] = CloseClient(OpenClient(@), TRUE)]
              /\ UNCHANGED hasIndex
         ELSE /\ mstate' = [mstate EXCEPT ![s] = "ready"]
              /\ hasIndex' = ensure_indexes(hasIndex, coll, reachable)
              /\ clients' = [clients EXCEPT ![s] =
                                CloseClient(OpenClient(CloseClient(OpenClient(@), FALSE)),
                                            ~create_index(hasIndex, coll, reachable).ok)]
    /\ UNCHANGED <<coll, docRev, op, counted, calls>>

\* append_data, entry: an empty batch returns 0 before any client is opened;
\* otherwise the client is opened and insert_many starts.
AppendCall(s, data) ==
    /\ mstate[s] = "ready"
    /\ op[s].phase = "idle"
    /\ IF data = <<>>
       THEN /\ op' = [op EXCEPT ![s] = [IdleOp EXCEPT !.phase = "returned",
                                                      !.collStart = coll]]
            /\ UNCHANGED clients
       ELSE /\ op' = [op EXCEPT ![s] = [IdleOp EXCEPT !.phase = "insert",
                                                      !.batch = data,
                                                      !.pre = Stored(coll),
                                                      !.collStart = coll,
                                                      !.rev = calls[s] + 1]]
            /\ clients' = [clients EXCEPT ![s] = OpenClient(@)]

\* What the server answers for a document that is no duplicate: it writes
\* it, or reports a write error of another kind (the collection's validator
\* refuses the document, the storage quota is used up).
WriteOutcomes == {"written", "write_error"}

\* insert_many, one document: the server inserts it or reports a write error.
InsertOne(s) ==
    /\ op[s].phase = "insert"
    /\ op[s].idx <= Len(op[s].batch)
    /\ \E outcome \in WriteOutcomes :
         LET d == op[s].batch[op[s].idx]
             dup == DuplicateKey(hasIndex, coll, d)
             refused == ~dup /\ outcome = "write_error"
             failed == dup \/ refused
             next == IF failed /\ ~ContinuesAfterError
                     THEN Len(op[s].batch) + 1 ELSE op[s].idx + 1
         IN /\ coll' = IF failed THEN coll ELSE [coll EXCEPT ![d] = @ + 1]
            /\ docRev' = IF failed \/ coll[d] > 0 THEN docRev
                         ELSE [docRev EXCEPT ![d] = op[s].rev]
            /\ op' = [op EXCEPT ![s] =
                        [@ EXCEPT !.idx = next,
                                  !.ins = IF failed THEN @ ELSE Append(@, d),
                                  !.errs = IF dup THEN @ + 1 ELSE @,
                                  !.rejected = IF refused THEN @ + 1 ELSE @]]
    /\ UNCHANGED <<hasIndex, mstate, clients, counted, calls>>

\* insert_many is over: without write errors the count is
\* len(result.inserted_ids); with write errors BulkWriteError is caught and
\* the count is details['nInserted'].  Either way the client is closed.
InsertDone(s) ==
    /\ op[s].phase = "insert"
    /\ op[s].idx > Len(op[s].batch)
    /\ op' = [op EXCEPT ![s] = [@ EXCEPT !.phase = "returned",
                                        !.result = Len(op[s].ins)]]
    /\ clients' = [clients EXCEPT ![s] = CloseClient(@, FALSE)]
    /\ counted' = [i \in Ids |-> counted[i] + Occurrences(op[s].ins, i)]
    /\ UNCHANGED <<coll, docRev, hasIndex, mstate, calls>>

\* A connection failure while insert_many runs: any other exception is
\* wrapped in StorageError after the client was closed.  The documents the
\* server had already written stay written.
InsertFails(s) ==
    /\ op[s].phase = "insert"
    /\ op' = [op EXCEPT ![s] = [@ EXCEPT !.phase = "raised"]]
    /\ clients' = [clients EXCEPT ![s] = CloseClient(@, TRUE)]
    /\ UNCHANGED <<coll, docRev, hasIndex, mstate, counted, calls>>

\* A crawler instance hands a page of identities to its storage ...
InstanceAppend(s) ==
    /\ \E data \in Batches : AppendCall(s, data)
    /\ calls' = [calls EXCEPT ![s] = @ + 1]
    /\ UNCHANGED <<coll, docRev, hasIndex, mstate, counted>>

\* ... and takes the count or the StorageError.
InstanceTakesResult(s) ==
    /\ op[s].phase \in {"returned", "raised"}
    /\ op' = [op EXCEPT ![s] = IdleOp]
    /\ UNCHANGED <<coll, docRev, hasIndex, mstate, clients, counted, calls>>

StorageInit ==
    /\ coll = [i \in Ids |-> 0]
    /\ docRev = [i \in Ids |-> 0]
    /\ hasIndex = FALSE
    /\ mstate = [s \in Stores |-> "new"]
    /\ op = [s \in Stores |-> IdleOp]
    /\ clients = [s \in Stores |-> 0]
    /\ counted = [i \in Ids |-> 0]
    /\ calls = [s \in Stores |-> 0]

\* ------------------------------------------------------------ FileStorage
VARIABLES
    fstate,      \* FileStorage: "new", "ready", "failed" (__init__ raised)
    fieldNames,  \* the attribute field_names has been set
    fileHeader,  \* header rows in the session file, each a list of names
    fileRows     \* data rows in the session file (ids, in file order)

fileVars == <<fstate, fieldNames, fileHeader, fileRows>>

\* ListingId: the declared fields and the computed fields, in order.
model_fields == <<"source", "source_id", "title", "url", "fetch_date">>
model_computed_fields == <<"id">>

\* _initialize_csv: the header is list(model_fields) extended by
\* list(model_computed_fields).
initialize_csv == model_fields \o model_computed_fields

\* __init__: the directory is created, and only when the session file does
\* not exist yet is _initialize_csv called, which writes the header and
\* sets field_names.  `exists` is true when an instance for the same type
\* was constructed within the same second.
FileStorage_init ==
    /\ fstate = "new"
    /\ \E exists \in BOOLEAN, ioOk \in BOOLEAN :
         IF ~ioOk
         THEN /\ fstate' = "failed"
              /\ UNCHANGED <<fieldNames, fileHeader, fileRows>>
         ELSE /\ fstate' = "ready"
              /\ fieldNames' = ~exists
              /\ fileHeader' = <<initialize_csv>>
              /\ UNCHANGED fileRows

\* FileStorage.append_data: 0 for an empty batch; otherwise the rows are
\* written and len(data) is returned, and every exception (the open or the
\* write failing, field_names missing) is raised as StorageError.  A write
\* that fails part-way leaves the first `written` rows in the file.
file_append_data(data, rows, hasFields, ioOk, written) ==
    IF data = <<>> THEN [raised |-> FALSE, count |-> 0, rows |-> rows]
    ELSE IF ~hasFields THEN [raised |-> TRUE, count |-> 0, rows |-> rows]
    ELSE IF ~ioOk
         THEN [raised |-> TRUE, count |-> 0,
               rows |-> rows \o SubSeq(data, 1, written)]
    ELSE [raised |-> FALSE, count |-> Len(data), rows |-> rows \o data]

\* FileStorage.append_data called directly, one call after the other.
VARIABLES
    fop,            \* the last call: its data, whether the file could be
                    \* written, and the count or StorageError
    file_appended,  \* the items of the calls that returned, in call order
    fraised,        \* some call raised StorageError
    fcalls          \* calls made

fileCallVars == <<fop, file_appended, fraised, fcalls>>

IdleFileOp == [phase |-> "idle", data |-> <<>>, io |-> TRUE, result |-> 0]

FileInstanceAppend ==
    /\ fstate = "ready"
    /\ fcalls < MaxCalls
    /\ \E data \in Batches, ioOk \in BOOLEAN :
         \E written \in 0 .. Len(data) :
           LET r == file_append_data(data, fileRows, fieldNames, ioOk, written)
           IN /\ fileRows' = r.rows
              /\ fop' = [phase |-> IF r.raised THEN "raised" ELSE "returned",
                         data |-> data, io |-> ioOk, result |-> r.count]
              /\ file_appended' = IF r.raised THEN file_appended
                                  ELSE file_appended \o data
              /\ fraised' = (fraised \/ r.raised)
    /\ fcalls' = fcalls + 1
    /\ UNCHANGED <<fstate, fieldNames, fileHeader>>

FileCallIdle ==
    /\ fop = IdleFileOp
    /\ file_appended = <<>>
    /\ fraised = FALSE
    /\ fcalls = 0

\* ---------------------------------------------- ImmobiliareIdScraper state
VARIABLES
    skind,           \* the Storage handed to the scraper: "mongo" or "file"
    max_pages,       \* settings.max_pages
    listing_limit,   \* settings.listing_limit
    min_delay,       \* settings.min_delay, in tenths of a second
    pc,              \* position of scrape()
    err,             \* exception scrape() is leaving with, or "none"
    stop,            \* which break ended the loop, or "none"
    browser,         \* the Chrome process: "none", "alive", "dead"
    created,         \* Chrome processes this run has started
    urlPag,          \* pag= parameter of driver.current_url, 0 when absent
    page_n,          \* page_n of the current iteration
    listings,        \* listings of the current iteration
    content_elements, \* content_elements of the current iteration
    total_listings,
    total_inserted,
    extracted,       \* ids extracted on any page so far
    flushed,         \* ids of the batches whose append_data call returned
    pagesSeen,       \* page numbers whose listings were extracted
    stepByOne,       \* the run started on page 1 and every click advanced by one
    appendCalls,     \* append_data calls made by scrape()
    appendFailed,    \* an append_data call of scrape() met an I/O failure
    next_outcome,    \* what the last to_next_page call ran into, or "none"
    iter             \* loop iterations started

settingVars == <<skind, max_pages, listing_limit, min_delay>>

VARIABLES
    cards            \* the kinds of listing card the result pages are made of

siteVars == <<cards>>

crawlVars == <<pc, err, stop, browser, created, urlPag, page_n, listings,
               content_elements,
               total_listings, total_inserted, extracted, flushed, pagesSeen,
               stepByOne, appendCalls, appendFailed, next_outcome, iter>>

max_delay == 30                    \* settings.max_delay, tenths of a second
BaseDelays == {min_delay, max_delay}   \* random.uniform(min_delay, max_delay)
Jitters == {-2, 0, 3}              \* random.uniform(-0.2, 0.3)
ExtraPauses == {0, 10, 30}         \* 0.0, or random.uniform(1.0, 3.0)

\* _realistic_wait: time.sleep raises ValueError for a negative duration.
realistic_wait(base, jitter, extra) ==
    LET delay == base + jitter + extra
    IN IF delay < 0 THEN "ValueError" ELSE "none"

WaitOutcomes ==
    {realistic_wait(b, j, e) : b \in BaseDelays, j \in Jitters, e \in ExtraPauses}

\* _get_current_page_number: the pag= parameter, 1 when there is none.
get_current_page_number(u) == IF u = 0 THEN 1 ELSE u

\* _create_driver: uc.Chrome(...) may fail before a process exists
\* ("no_browser"); implicitly_wait / set_page_load_timeout may fail after
\* it exists ("config_failed").  Both are raised as ScrapingError.
create_driver(outcome) ==
    CASE outcome = "ok" -> [raised |-> FALSE, started |-> 1, browser |-> "alive"]
      [] outcome = "no_browser" -> [raised |-> TRUE, started |-> 0, browser |-> "none"]
      [] outcome = "config_failed" -> [raised |-> TRUE, started |-> 1, browser |-> "alive"]

\* get_driver, the finally clause: driver.quit(); an exception from it is
\* logged and swallowed, and then the process is gone or not.
QuitResults(quitOk) == IF quitOk THEN {"dead"} ELSE {"dead", "alive"}

\* (variant: the limit tested against total_inserted)
LimitReached_OnInserted(scraped, inserted, limit) == inserted >= limit

\* The stop conditions of scrape(), in the order they are tested:
\* total_listings >= listing_limit ...
LimitReached(scraped, inserted, limit) == scraped >= limit

\* (variant: page_n > max_pages)
MaxPagesReached_OffByOne(p, m) == p > m

\* ... then page_n >= max_pages.
MaxPagesReached(p, m) == p >= m

\* to_next_page: True only when the control was found, enabled, displayed
\* and clicked; every exception inside it gives False.
to_next_page(outcome) == outcome = "clicked"

NextOutcomes == {"clicked", "not_found", "not_enabled", "click_failed"}

\* (variant: the result of to_next_page is ignored)
BreaksWithoutNext_Never(is_next) == FALSE

\* scrape(): `if not is_next: break`.
BreaksWithoutNext(is_next) == ~is_next

\* (variant: the append wrapped in a try block that logs and goes on)
PropagatesStorageError_Swallowed == FALSE

\* scrape(): storage.append_data is called outside any try block, so a
\* StorageError leaves the loop and the with block.
PropagatesStorageError == TRUE

Leave(e, why) ==
    /\ pc' = "exiting"
    /\ err' = e
    /\ stop' = why

\* ------------------------------------------- ImmobiliareListingScraper
\* scrape() of an ImmobiliareListingScraper that holds a ListingId and a
\* Storage.
VARIABLES
    dpc,                  \* position of scrape(), "idle" when there is no such run
    derr,                 \* exception scrape() is leaving with, or "none"
    dbrowser,             \* the Chrome process: "none", "alive", "dead"
    price,                \* text of the price element
    location_parts,
    extended_description,
    dialog_element,       \* "unset", "None" or "dialog"
    characteristics,      \* key -> value text, <<>> for a key that is not there
    listing_details,      \* the ListingDetails built, or NoDetails
    detail_appends        \* arguments of the storage.append_data calls made

detailVars == <<dpc, derr, dbrowser, price, location_parts, extended_description,
                dialog_element, characteristics, listing_details, detail_appends>>

CharKeys == {"Superficie", "Tipologia", "Contratto", "Giardino"}
NoCharacteristics == [k \in CharKeys |-> <<>>]
NoNumber == -1
NoDetails == [surface |-> NoNumber, type |-> <<>>, contract |-> <<>>, built |-> FALSE]

PriceTexts == {<<>>, <<"U+20AC", " ", "3", "0">>, <<"s", "u", " ", "r", "i", "c", "h">>}
\* Surface texts of the dialog: with the unit, without it, with a decimal
\* comma, and without any digit.
Surface82m2 == <<"8", "2", " ", "m", "U+00B2">>
Surface82 == <<"8", "2">>
Surface82_5m2 == <<"8", "2", ",", "5", " ", "m", "U+00B2">>
SurfaceTexts ==
    {<<>>, <<"3", "5", " ", "m", "U+00B2">>, <<"n", ".", "d", ".">>,
     Surface82m2, Surface82, Surface82_5m2}
TypeTexts == {<<>>, <<"Appartamento">>}
ContractTexts == {<<>>, <<"Vendita">>}
GardenTexts == {<<>>, <<"Giardino privato">>}

DigitChars == {"0", "1", "2", "3", "4", "5", "6", "7", "8", "9"}
DigitVal(c) ==
    CASE c = "0" -> 0 [] c = "1" -> 1 [] c = "2" -> 2 [] c = "3" -> 3
      [] c = "4" -> 4 [] c = "5" -> 5 [] c = "6" -> 6 [] c = "7" -> 7
      [] c = "8" -> 8 [] c = "9" -> 9

\* re.findall(r'\d+', text)[0] as a number, NoNumber when findall is empty.
RECURSIVE DigitRun(_, _)
DigitRun(text, acc) ==
    IF text = <<>> \/ Head(text) \notin DigitChars THEN acc
    ELSE DigitRun(Tail(text), 10 * acc + DigitVal(Head(text)))

RECURSIVE FirstNumber(_)
FirstNumber(text) ==
    IF text = <<>> THEN NoNumber
    ELSE IF Head(text) \in DigitChars THEN DigitRun(text, 0)
    ELSE FirstNumber(Tail(text))

\* _parse_surface: None for an empty text, the first run of digits as a
\* float, and None again (the function falls off its end) when the text has
\* no digits; the except clause is never entered.
parse_surface(surface_str) ==
    IF surface_str = <<>> THEN [raised |-> FALSE, value |-> NoNumber]
    ELSE [raised |-> FALSE, value |-> FirstNumber(surface_str)]

\* _parse_price: currency sign, blanks and dots removed, then float().
parse_price(price_str) ==
    LET clean == SelectSeq(price_str, LAMBDA c : c \notin {"U+20AC", " ", "."})
    IN IF clean # <<>> /\ \A k \in 1 .. Len(clean) : clean[k] \in DigitChars
       THEN [raised |-> FALSE, value |-> DigitRun(clean, 0)]
       ELSE [raised |-> TRUE, value |-> NoNumber]

\* _validate_required_fields: raises for an empty price, location,
\* description or dictionary and for a missing or empty required key.
validate_required_fields(p, loc, descr, chars) ==
    \/ p = <<>>
    \/ loc = <<>>
    \/ descr = <<>>
    \/ chars = NoCharacteristics
    \/ \E k \in {"Tipologia", "Contratto", "Superficie"} : chars[k] = <<>>

\* _build_listing_details: every exception inside it is raised as
\* ValueError.  ListingDetails(...) itself rejects garden=True/False, the
\* field being declared str | None.
build_listing_details(p, loc, descr, chars) ==
    LET surface == parse_surface(chars["Superficie"])
        failed == \/ validate_required_fields(p, loc, descr, chars)
                  \/ parse_price(p).raised
                  \/ chars["Superficie"] = <<>>
                  \/ surface.raised
                  \/ chars["Tipologia"] = <<>>
                  \/ chars["Contratto"] = <<>>
                  \/ chars["Giardino"] # <<>>
    IN IF failed THEN [raised |-> TRUE, details |-> NoDetails]
       ELSE [raised |-> FALSE,
             details |-> [surface |-> surface.value, type |-> chars["Tipologia"],
                          contract |-> chars["Contratto"], built |-> TRUE]]

\* _open_characteristics_dialog: the dialog element, or None after any
\* exception (button not found, not clickable, dialog not shown, wait).
DialogOutcomes == {"opened", "no_button", "not_clickable", "no_dialog"}
open_characteristics_dialog(outcome, w) ==
    IF outcome = "opened" /\ w = "none" THEN "dialog" ELSE "None"

\* scrape(): raise ValueError("Failed to open characteristics dialog, ...")
DialogMissingError == "ValueError"

DetailLeave(e) == dpc' = "exiting" /\ derr' = e

\* with self.get_driver() as driver
DetailGetDriver ==
    /\ dpc = "init"
    /\ \E outcome \in {"ok", "no_browser", "config_failed"} :
         LET r == create_driver(outcome)
         IN /\ dbrowser' = r.browser
            /\ dpc' = IF r.raised THEN "raised" ELSE "navigate"
            /\ derr' = IF r.raised THEN "ScrapingError" ELSE "none"
    /\ UNCHANGED <<price, location_parts, extended_description, dialog_element,
                   characteristics, listing_details, detail_appends>>

\* get_page(scrape_url, wait_for_element), _close_cookies, _realistic_wait,
\* _close_login_popup, _realistic_wait, the random scroll.  The two
\* _close_ methods catch whatever happens inside them.
DetailNavigate ==
    /\ dpc = "navigate"
    /\ \E pageOk \in BOOLEAN, w1 \in WaitOutcomes, w2 \in WaitOutcomes,
          scriptOk \in BOOLEAN :
         IF ~pageOk THEN DetailLeave("ScrapingError")
         ELSE IF w1 # "none" THEN DetailLeave(w1)
         ELSE IF w2 # "none" THEN DetailLeave(w2)
         ELSE IF ~scriptOk THEN DetailLeave("WebDriverException")
         ELSE dpc' = "extract" /\ UNCHANGED derr
    /\ UNCHANGED <<dbrowser, price, location_parts, extended_description,
                   dialog_element, characteristics, listing_details,
                   detail_appends>>

\* _get_price and _get_location raise ValueError when the element is not
\* there; _get_description gives "" after any exception; the other
\* extractors give None or [] and never raise.
DetailExtract ==
    /\ dpc = "extract"
    /\ \E priceFound \in BOOLEAN, p \in PriceTexts,
          loc \in {<<>>, <<"Milano", "Centro">>},
          descr \in {<<>>, <<"text">>} :
         IF ~priceFound \/ loc = <<>>
         THEN /\ DetailLeave("ValueError")
              /\ price' = IF priceFound THEN p ELSE price
              /\ UNCHANGED <<location_parts, extended_description>>
         ELSE /\ price' = p
              /\ location_parts' = loc
              /\ extended_description' = descr
              /\ dpc' = "dialog"
              /\ UNCHANGED derr
    /\ UNCHANGED <<dbrowser, dialog_element, characteristics, listing_details,
                   detail_appends>>

\* dialog_element = self._open_characteristics_dialog(driver); None raises;
\* otherwise _extract_characteristics fills the dictionary and the with
\* block is left.
DetailOpenDialog ==
    /\ dpc = "dialog"
    /\ \E outcome \in DialogOutcomes, w \in WaitOutcomes,
          a \in SurfaceTexts, b \in TypeTexts, c \in ContractTexts,
          g \in GardenTexts :
         LET d == open_characteristics_dialog(outcome, w)
         IN /\ dialog_element' = d
            /\ IF d = "None"
               THEN DetailLeave(DialogMissingError) /\ UNCHANGED characteristics
               ELSE /\ DetailLeave("none")
                    /\ characteristics' =
                         [k \in CharKeys |->
                            CASE k = "Superficie" -> a [] k = "Tipologia" -> b
                              [] k = "Contratto" -> c [] k = "Giardino" -> g]
    /\ UNCHANGED <<dbrowser, price, location_parts, extended_description,
                   listing_details, detail_appends>>

\* Leaving the with block: the finally clause of get_driver.
DetailQuit ==
    /\ dpc = "exiting"
    /\ \E quitOk \in BOOLEAN : \E b \in QuitResults(quitOk) : dbrowser' = b
    /\ dpc' = IF derr = "none" THEN "build" ELSE "raised"
    /\ UNCHANGED <<derr, price, location_parts, extended_description,
                   dialog_element, characteristics, listing_details,
                   detail_appends>>

\* listing_details = self._build_listing_details(...)
DetailBuild ==
    /\ dpc = "build"
    /\ LET r == build_listing_details(price, location_parts,
                                      extended_description, characteristics)
       IN IF r.raised
          THEN dpc' = "raised" /\ derr' = "ValueError" /\ UNCHANGED listing_details
          ELSE dpc' = "append" /\ listing_details' = r.details /\ UNCHANGED derr
    /\ UNCHANGED <<dbrowser, price, location_parts, extended_description,
                   dialog_element, characteristics, detail_appends>>

\* self.storage.append_data([listing_details])
DetailAppend ==
    /\ dpc = "append"
    /\ detail_appends' = Append(detail_appends, listing_details)
    /\ \E stored \in BOOLEAN :
         IF stored THEN dpc' = "returned" /\ UNCHANGED derr
         ELSE dpc' = "raised" /\ derr' = "StorageError"
    /\ UNCHANGED <<dbrowser, price, location_parts, extended_description,
                   dialog_element, characteristics, listing_details>>

DetailFresh ==
    /\ derr = "none" /\ dbrowser = "none"
    /\ price = <<>> /\ location_parts = <<>> /\ extended_description = <<>>
    /\ dialog_element = "unset" /\ characteristics = NoCharacteristics
    /\ listing_details = NoDetails /\ detail_appends = <<>>

\* No ImmobiliareListingScraper is run: nothing is read, nothing is built.
DetailIdle ==
    /\ dpc = "idle" /\ derr = "none" /\ dbrowser = "none"
    /\ price = <<>> /\ location_parts = <<>> /\ extended_description = <<>>
    /\ dialog_element = "unset" /\ characteristics = <<>>
    /\ listing_details = <<>> /\ detail_appends = <<>>

\* ------------------------------------------------ listing cards of a page

\* A text is a sequence of characters; those outside ASCII are written as
\* their code points.
Contains(text, sub) ==
    \E k \in 0 .. Len(text) - Len(sub) :
        \A j \in 1 .. Len(sub) : text[k + j] = sub[j]

\* The letters str.lower() and str.upper() exchange, on the alphabet of the
\* texts that occur here.
UpperChars ==
    <<"A", "B", "C", "D", "E", "F", "G", "H", "I", "J", "K", "L", "M", "N",
      "O", "P", "Q", "R", "S", "T", "U", "V", "W", "X", "Y", "Z",
      "U+00C0", "U+00CC">>
LowerChars ==
    <<"a", "b", "c", "d", "e", "f", "g", "h", "i", "j", "k", "l", "m", "n",
      "o", "p", "q", "r", "s", "t", "u", "v", "w", "x", "y", "z",
      "U+00E0", "U+00EC">>

CharIndex(chars, c) == CHOOSE k \in 1 .. Len(chars) : chars[k] = c
LowerOf == [c \in Range(UpperChars) |-> LowerChars[CharIndex(UpperChars, c)]]
UpperOf == [c \in Range(LowerChars) |-> UpperChars[CharIndex(LowerChars, c)]]

\* str.lower()
Lower(text) ==
    [k \in 1 .. Len(text) |->
        IF text[k] \in DOMAIN LowerOf THEN LowerOf[text[k]] ELSE text[k]]

\* str.upper()
Upper(text) ==
    [k \in 1 .. Len(text) |->
        IF text[k] \in DOMAIN UpperOf THEN UpperOf[text[k]] ELSE text[k]]

\* The price line of a card: "EUR 90" with the euro sign, and for an auction
\* or variable price "da EUR 90".
PriceFrom == <<"d", "a", " ", "U+20AC">>
PlainText == <<"U+20AC", " ", "9", "0">>
AuctionText == <<"D", "a", " ", "U+20AC", " ", "9", "0">>

\* _is_auction: the literal it looks for in the lowercased text of the card,
\* as the source file holds it: "da " and the three characters U+00E2 U+201A
\* U+00AC (the euro sign's UTF-8 bytes read as cp1252).
AuctionLiteral == <<"d", "a", " ", "U+00E2", "U+201A", "U+00AC">>

\* What stands for the text of a card whose .text raises.
Unreadable == <<"raises">>

\* The price line of a card whose text itself went through that misreading.
GarbledText == AuctionLiteral \o <<" ", "9", "0">>

CardKinds ==
    {"listing", "no_anchor", "no_link", "no_title", "no_id", "auction",
     "garbled", "no_text"}

\* A div.styles_in-listingCardPropertyContent element as scrape() sees it:
\* whether the anchor is found, whether it has an href and a title, what
\* extract_listing_id makes of the href (0 for None), and the text of the
\* card (Unreadable when reading it raises).
Card(kind, i) ==
    [anchor |-> kind # "no_anchor",
     href |-> kind \notin {"no_anchor", "no_link"},
     title |-> kind \notin {"no_anchor", "no_link", "no_title"},
     source_id |-> IF kind \in {"no_anchor", "no_link", "no_id"} THEN 0 ELSE i,
     text |-> CASE kind = "auction" -> AuctionText
                [] kind = "garbled" -> GarbledText
                [] kind = "no_text" -> Unreadable
                [] OTHER -> PlainText]

\* driver.find_elements(...): what a result page can hold.
PageContents ==
    UNION {[1 .. n -> {Card(k, i) : k \in cards, i \in Ids}] : n \in 0 .. MaxCards}

\* _is_auction: "da ..." in content_element.text.lower(); False when
\* reading the text raises.
is_auction(text) ==
    IF text = Unreadable THEN FALSE
    ELSE Contains(Lower(text), AuctionLiteral)

\* The body of the per-element loop of scrape(): the ListingId appended for
\* one element, if any.  find_element raising is caught and the element
\* skipped; no link, no title, no id and an auction `continue`.
card_listing(e) ==
    IF ~e.anchor THEN <<>>
    ELSE IF ~e.href THEN <<>>
    ELSE IF ~e.title THEN <<>>
    ELSE IF e.source_id = 0 THEN <<>>
    ELSE IF is_auction(e.text) THEN <<>>
    ELSE <<e.source_id>>

\* for i, content_element in enumerate(content_elements): ...
RECURSIVE scrape_listings(_)
scrape_listings(elems) ==
    IF elems = <<>> THEN <<>>
    ELSE card_listing(Head(elems)) \o scrape_listings(Tail(elems))

\* ------------------------------------------------ ListingDataTransformer

\* Python's None where a function returns an enumeration member or None.
None == "None"

\* str.strip(), for the whitespace that occurs here.
Whitespace == {" "}

RECURSIVE LStrip(_)
LStrip(text) ==
    IF text # <<>> /\ Head(text) \in Whitespace THEN LStrip(Tail(text))
    ELSE text

RECURSIVE RStrip(_)
RStrip(text) ==
    IF text # <<>> /\ text[Len(text)] \in Whitespace
    THEN RStrip(SubSeq(text, 1, Len(text) - 1))
    ELSE text

Strip(text) == RStrip(LStrip(text))

\* str.split(sep) for a one-character separator.
RECURSIVE Split(_, _)
Split(text, sep) ==
    IF \A k \in 1 .. Len(text) : text[k] # sep THEN <<text>>
    ELSE LET k == CHOOSE j \in 1 .. Len(text) :
                      text[j] = sep /\ \A i \in 1 .. j - 1 : text[i] # sep
         IN <<SubSeq(text, 1, k - 1)>> \o Split(SubSeq(text, k + 1, Len(text)), sep)

NonEmpty(part) == part # <<>>

\* _parse_composite_field: the stripped parts that are not empty.
parse_composite_field(field_value, separator) ==
    IF Strip(field_value) = <<>> THEN <<>>
    ELSE LET parts == Split(field_value, separator)
         IN SelectSeq([k \in 1 .. Len(parts) |-> Strip(parts[k])], NonEmpty)

\* immobiliare_enum_mapper.py: the labels of FurnitureType.
IMM_FURNITURE_MAP ==
    <<
      [k |-> <<"S", "U+00EC">>,
       v |-> "FULLY_FURNISHED"],
      [k |-> <<"P", "a", "r", "z", "i", "a", "l", "m", "e", "n", "t", "e", " ", "A", "r", "r", "e", "d", "a", "t", "o">>,
       v |-> "PARTIALLY_FURNISHED"],
      [k |-> <<"S", "o", "l", "o", " ", "C", "u", "c", "i", "n", "a", " ", "A", "r", "r", "e", "d", "a", "t", "a">>,
       v |-> "ONLY_KITCHEN"],
      [k |-> <<"N", "o">>,
       v |-> "NO"]
    >>

\* The labels of Garden.
IMM_GARDEN_MAP ==
    <<
      [k |-> <<"G", "i", "a", "r", "d", "i", "n", "o", " ", "p", "r", "i", "v", "a", "t", "o">>,
       v |-> "PRIVATE"],
      [k |-> <<"G", "i", "a", "r", "d", "i", "n", "o", " ", "c", "o", "m", "u", "n", "e">>,
       v |-> "SHARED"],
      [k |-> <<"N", "e", "s", "s", "u", "n", " ", "g", "i", "a", "r", "d", "i", "n", "o">>,
       v |-> "NONE"],
      [k |-> <<"F", "A", "L", "S", "E">>,
       v |-> "NONE"]
    >>

\* The labels of KitchenType.
IMM_KITCHEN_MAP ==
    <<
      [k |-> <<"C", "u", "c", "i", "n", "a", " ", "a", "b", "i", "t", "a", "b", "i", "l", "e">>,
       v |-> "HABITABLE"],
      [k |-> <<"C", "u", "c", "i", "n", "a", " ", "a", " ", "v", "i", "s", "t", "a">>,
       v |-> "OPEN_VIEW"],
      [k |-> <<"C", "u", "c", "i", "n", "a", " ", "c", "u", "c", "i", "n", "o", "t", "t", "o">>,
       v |-> "KITCHENETTE"],
      [k |-> <<"C", "u", "c", "i", "n", "a", " ", "a", "n", "g", "o", "l", "o", " ", "c", "o", "t", "t", "u", "r", "a">>,
       v |-> "COOKING_CORNER"],
      [k |-> <<"C", "u", "c", "i", "n", "a", " ", "s", "e", "m", "i", " ", "a", "b", "i", "t", "a", "b", "i", "l", "e">>,
       v |-> "SEMI_HABITABLE"]
    >>

\* The labels of OwnershipType.
IMM_OWNERSHIP_MAP ==
    <<
      [k |-> <<"I", "n", "t", "e", "r", "a", " ", "p", "r", "o", "p", "r", "i", "e", "t", "U+00E0">>,
       v |-> "FULL_OWNERSHIP"],
      [k |-> <<"N", "u", "d", "a", " ", "p", "r", "o", "p", "r", "i", "e", "t", "U+00E0">>,
       v |-> "BARE_OWNERSHIP"],
      [k |-> <<"D", "i", "r", "i", "t", "t", "o", " ", "d", "i", " ", "s", "u", "p", "e", "r", "f", "i", "c", "i", "e">>,
       v |-> "SURFACE_RIGHT"]
    >>

\* The labels of PropertyClass.
IMM_PROPERTY_CLASS_MAP ==
    <<
      [k |-> <<"C", "l", "a", "s", "s", "e", " ", "i", "m", "m", "o", "b", "i", "l", "e", " ", "s", "i", "g", "n", "o", "r", "i", "l", "e">>,
       v |-> "LUXURY"],
      [k |-> <<"C", "l", "a", "s", "s", "e", " ", "i", "m", "m", "o", "b", "i", "l", "e", " ", "m", "e", "d", "i", "a">>,
       v |-> "MEDIUM"],
      [k |-> <<"C", "l", "a", "s", "s", "e", " ", "i", "m", "m", "o", "b", "i", "l", "e", " ", "e", "c", "o", "n", "o", "m", "i", "c", "a">>,
       v |-> "ECONOMIC"],
      [k |-> <<"I", "m", "m", "o", "b", "i", "l", "e", " ", "d", "i", " ", "l", "u", "s", "s", "o">>,
       v |-> "HIGH_END_LUXURY"]
    >>

\* The labels of PropertyCondition.
IMM_PROPERTY_CONDITION_MAP ==
    <<
      [k |-> <<"O", "t", "t", "i", "m", "o", " ", "/", " ", "R", "i", "s", "t", "r", "u", "t", "t", "u", "r", "a", "t", "o">>,
       v |-> "EXCELLENT_RENOVATED"],
      [k |-> <<"D", "a", " ", "r", "i", "s", "t", "r", "u", "t", "t", "u", "r", "a", "r", "e">>,
       v |-> "TO_RENOVATE"],
      [k |-> <<"N", "u", "o", "v", "o", " ", "/", " ", "I", "n", " ", "c", "o", "s", "t", "r", "u", "z", "i", "o", "n", "e">>,
       v |-> "NEW_UNDER_CONSTRUCTION"],
      [k |-> <<"B", "u", "o", "n", "o", " ", "/", " ", "A", "b", "i", "t", "a", "b", "i", "l", "e">>,
       v |-> "GOOD_HABITABLE"]
    >>

\* The labels of PropertyType.
IMM_PROPERTY_TYPE_MAP ==
    <<
      [k |-> <<"A", "p", "p", "a", "r", "t", "a", "m", "e", "n", "t", "o">>,
       v |-> "APARTMENT"],
      [k |-> <<"A", "t", "t", "i", "c", "o">>,
       v |-> "PENTHOUSE"],
      [k |-> <<"L", "o", "f", "t">>,
       v |-> "LOFT"],
      [k |-> <<"V", "i", "l", "l", "a", " ", "b", "i", "f", "a", "m", "i", "l", "i", "a", "r", "e">>,
       v |-> "SEMI_DETACHED_VILLA"],
      [k |-> <<"M", "a", "n", "s", "a", "r", "d", "a">>,
       v |-> "ATTIC"],
      [k |-> <<"V", "i", "l", "l", "a", " ", "u", "n", "i", "f", "a", "m", "i", "l", "i", "a", "r", "e">>,
       v |-> "DETACHED_VILLA"],
      [k |-> <<"O", "p", "e", "n", " ", "s", "p", "a", "c", "e">>,
       v |-> "OPEN_SPACE"],
      [k |-> <<"T", "e", "r", "r", "a", "t", "e", "t", "t", "o", " ", "u", "n", "i", "f", "a", "m", "i", "l", "i", "a", "r", "e">>,
       v |-> "TERRACED_HOUSE"],
      [k |-> <<"V", "i", "l", "l", "a", " ", "a", " ", "s", "c", "h", "i", "e", "r", "a">>,
       v |-> "TOWNHOUSE"],
      [k |-> <<"A", "p", "p", "a", "r", "t", "a", "m", "e", "n", "t", "o", " ", "i", "n", " ", "v", "i", "l", "l", "a">>,
       v |-> "VILLA_APARTMENT"],
      [k |-> <<"V", "i", "l", "l", "a", " ", "p", "l", "u", "r", "i", "f", "a", "m", "i", "l", "i", "a", "r", "e">>,
       v |-> "MULTI_FAMILY_VILLA"],
      [k |-> <<"R", "u", "s", "t", "i", "c", "o">>,
       v |-> "RUSTIC_HOUSE"]
    >>

\* The labels of ContractType.
IMM_CONTRACT_TYPE_MAP ==
    <<
      [k |-> <<"V", "e", "n", "d", "i", "t", "a">>,
       v |-> "SALE"],
      [k |-> <<"A", "f", "f", "i", "t", "t", "o">>,
       v |-> "RENT"]
    >>

\* enumerations.EnergyClass: each value with its member.
EnergyClass ==
    <<
      [k |-> <<"A">>,
       v |-> "A"],
      [k |-> <<"A", "+">>,
       v |-> "AP"],
      [k |-> <<"A", "1">>,
       v |-> "A1"],
      [k |-> <<"A", "2">>,
       v |-> "A2"],
      [k |-> <<"A", "3">>,
       v |-> "A3"],
      [k |-> <<"A", "4">>,
       v |-> "A4"],
      [k |-> <<"B">>,
       v |-> "B"],
      [k |-> <<"C">>,
       v |-> "C"],
      [k |-> <<"D">>,
       v |-> "D"],
      [k |-> <<"E">>,
       v |-> "E"],
      [k |-> <<"F">>,
       v |-> "F"],
      [k |-> <<"G">>,
       v |-> "G"]
    >>

\* dict.get(key): the value stored under the key, or None.
HasKey(mapping, key) == \E k \in 1 .. Len(mapping) : mapping[k].k = key
Get(mapping, key) ==
    IF HasKey(mapping, key)
    THEN mapping[CHOOSE k \in 1 .. Len(mapping) : mapping[k].k = key].v
    ELSE None

\* (variant: without the case-insensitive loop)
parse_enumeration_field_ExactOnly(field_value_str, mapping) ==
    IF Strip(field_value_str) = <<>> THEN None
    ELSE Get(mapping, Strip(field_value_str))

\* _parse_enumeration_field: None for an empty or blank value; the value of
\* the stripped text when it is a key; otherwise the value of the first key
\* that equals it once both are lowercased; otherwise None (with a warning).
parse_enumeration_field(field_value_str, mapping) ==
    IF Strip(field_value_str) = <<>> THEN None
    ELSE LET raw == Strip(field_value_str)
             same == {k \in 1 .. Len(mapping) : Lower(mapping[k].k) = Lower(raw)}
         IN IF HasKey(mapping, raw) THEN Get(mapping, raw)
            ELSE IF same # {}
                 THEN mapping[CHOOSE k \in same : \A j \in same : k <= j].v
            ELSE None

\* _get_energy_class: the data-energy-class attribute stripped and
\* uppercased, None when it is absent or empty.
get_energy_class(attribute) ==
    IF attribute = <<>> THEN <<>> ELSE Upper(Strip(attribute))

\* _parse_energy_class, on what _get_energy_class returned: None for
\* nothing, AP for "A+", EnergyClass(value) otherwise, and None when that
\* raises ValueError.
parse_energy_class(energy_class_str) ==
    IF energy_class_str = <<>> THEN None
    ELSE IF energy_class_str = <<"A", "+">> THEN "AP"
    ELSE Get(EnergyClass, energy_class_str)

\* The fields _map hands to _parse_enumeration_field, each with its table.
EnumerationFields == {"condition", "garden", "furnished", "kitchen"}

FieldMapping(field) ==
    CASE field = "condition" -> IMM_PROPERTY_CONDITION_MAP
      [] field = "garden" -> IMM_GARDEN_MAP
      [] field = "furnished" -> IMM_FURNITURE_MAP
      [] field = "kitchen" -> IMM_KITCHEN_MAP
      [] field = "energy_class" -> EnergyClass

\* What a ListingRecord field holds for the raw text of its field.
optional_enumeration(field, text) ==
    IF field = "energy_class" THEN parse_energy_class(get_energy_class(text))
    ELSE parse_enumeration_field(text, FieldMapping(field))

TypeOutcome(e, pt, own, cls) ==
    [raised |-> e, property_type |-> pt, ownership_type |-> own,
     property_class |-> cls]

\* (variant: a second part is only ever looked up as ownership type)
parse_type_field_OwnershipOnly(type_field) ==
    LET parts == parse_composite_field(type_field, "|")
        property_type ==
            parse_enumeration_field(parts[1], IMM_PROPERTY_TYPE_MAP)
    IN IF parts = <<>> THEN TypeOutcome("ValueError", None, None, None)
       ELSE IF property_type = None
            THEN TypeOutcome("ValueError", None, None, None)
       ELSE IF Len(parts) = 1 THEN TypeOutcome("none", property_type, None, None)
       ELSE IF Len(parts) = 2
            THEN TypeOutcome("none", property_type,
                     parse_enumeration_field(parts[2], IMM_OWNERSHIP_MAP), None)
       ELSE TypeOutcome("none", property_type,
                parse_enumeration_field(parts[2], IMM_OWNERSHIP_MAP),
                parse_enumeration_field(parts[3], IMM_PROPERTY_CLASS_MAP))

\* _parse_type_field: ValueError when there is no part or the first part is
\* no property type; one part gives the type alone; with two parts the
\* second is looked up as ownership type and, when that gives None, as
\* property class; with three or more the second is looked up as ownership
\* type and the third as property class.
parse_type_field(type_field) ==
    LET parts == parse_composite_field(type_field, "|")
        property_type ==
            parse_enumeration_field(parts[1], IMM_PROPERTY_TYPE_MAP)
        ownership_type == parse_enumeration_field(parts[2], IMM_OWNERSHIP_MAP)
    IN IF parts = <<>> THEN TypeOutcome("ValueError", None, None, None)
       ELSE IF property_type = None
            THEN TypeOutcome("ValueError", None, None, None)
       ELSE IF Len(parts) = 1 THEN TypeOutcome("none", property_type, None, None)
       ELSE IF Len(parts) = 2
            THEN IF ownership_type = None
                 THEN TypeOutcome("none", property_type, ownership_type,
                          parse_enumeration_field(parts[2], IMM_PROPERTY_CLASS_MAP))
                 ELSE TypeOutcome("none", property_type, ownership_type, None)
       ELSE TypeOutcome("none", property_type, ownership_type,
                parse_enumeration_field(parts[3], IMM_PROPERTY_CLASS_MAP))

\* _parse_contract_field: ValueError for an empty field; the stripped field
\* is looked up as a key, then its lowercased form is; ValueError when
\* neither is a key.
parse_contract_field(contract_field) ==
    IF contract_field = <<>>
    THEN [raised |-> "ValueError", contract_type |-> None]
    ELSE LET label == Strip(contract_field)
             value == IF Get(IMM_CONTRACT_TYPE_MAP, label) # None
                      THEN Get(IMM_CONTRACT_TYPE_MAP, label)
                      ELSE Get(IMM_CONTRACT_TYPE_MAP, Lower(label))
         IN IF value = None
            THEN [raised |-> "ValueError", contract_type |-> None]
            ELSE [raised |-> "none", contract_type |-> value]

\* _map: is_rent_to_own_available=False, whatever the contract field says.
is_rent_to_own_available(contract_field) == FALSE

\* _map, up to the point where it leaves: the exception of
\* _parse_type_field or _parse_contract_field, then AttributeError at
\* listing.other_features, a field ListingDetails does not have (its list
\* of amenities is other_amenities); the ListingRecord when it returns.
map_listing(listing) ==
    IF parse_type_field(listing.type).raised # "none"
    THEN [raised |-> parse_type_field(listing.type).raised, at |-> "type"]
    ELSE IF parse_contract_field(listing.contract).raised # "none"
    THEN [raised |-> parse_contract_field(listing.contract).raised,
          at |-> "contract"]
    ELSE IF ~listing.has_other_features
    THEN [raised |-> "AttributeError", at |-> "other_features"]
    ELSE [raised |-> "none", at |-> "return"]

\* (variant: the exception of _map let through as it is)
map_failure_Unwrapped(listing, e) ==
    [raised |-> e.raised, names |-> 0, at |-> e.at, record |-> FALSE]

\* map, except clause: every exception of _map is raised again as
\* ValueError("Failed to map listing {listing.id}: ...").
map_failure(listing, e) ==
    [raised |-> "ValueError", names |-> listing.id, at |-> e.at,
     record |-> FALSE]

\* map: the ListingRecord of _map, or the wrapped exception.
map(listing) ==
    IF map_listing(listing).raised = "none"
    THEN [raised |-> "none", names |-> listing.id, at |-> "return",
          record |-> TRUE]
    ELSE map_failure(listing, map_listing(listing))

\* Texts handed to the lookups: every label as it is, lowercased,
\* uppercased and padded, a text that is no label, and nothing.
UnknownLabel == <<"B", "o", "h">>
Variants(label) ==
    {label, Lower(label), Upper(label), <<" ">> \o label \o <<" ">>}
Keys(mapping) == {mapping[k].k : k \in 1 .. Len(mapping)}
EnumerationTexts(mapping) ==
    UNION {Variants(label) : label \in Keys(mapping)}
        \cup {<<>>, <<" ">>, UnknownLabel}

Appartamento == IMM_PROPERTY_TYPE_MAP[1].k
NudaProprieta == IMM_OWNERSHIP_MAP[2].k
ClasseMedia == IMM_PROPERTY_CLASS_MAP[2].k
Vendita == IMM_CONTRACT_TYPE_MAP[1].k
Affitto == IMM_CONTRACT_TYPE_MAP[2].k
Riscatto == <<"r", "i", "s", "c", "a", "t", "t", "o">>
Bar == <<"|">>

\* Values of the composite field `type`: one, two and three parts, known
\* and unknown, with and without blanks around the bars.
FirstParts == {Appartamento, Lower(Appartamento), UnknownLabel, <<>>}
OtherParts == {NudaProprieta, ClasseMedia, UnknownLabel, <<>>}
TypeFields ==
    FirstParts
        \cup {a \o Bar \o b : a \in FirstParts, b \in OtherParts}
        \cup {a \o Bar \o b \o Bar \o c :
                 a \in FirstParts, b \in OtherParts, c \in OtherParts}
        \cup {Appartamento \o <<" ">> \o Bar \o <<" ">> \o b
                  \o <<" ">> \o Bar \o <<" ">> \o c :
                 b \in OtherParts, c \in OtherParts}
        \cup {Appartamento \o Bar \o NudaProprieta \o Bar \o ClasseMedia
                  \o Bar \o UnknownLabel}

\* Values of the field `contract`.
ContractFields ==
    Variants(Vendita) \cup Variants(Affitto)
        \cup {Vendita \o <<" ", "c", "o", "n", " ">> \o Riscatto,
              Affitto \o <<" ", "c", "o", "n", " ">> \o Riscatto,
              UnknownLabel, <<>>, <<" ">>}

VARIABLES
    mcall,     \* the last lookup: function, field, argument and outcome
    mbatch,    \* the ListingDetails handed to map, one after the other
    mresults   \* what map gave for each of them so far

mapVars == <<mcall, mbatch, mresults>>

NoOutcome ==
    [raised |-> "none", value |-> None, property_type |-> None,
     ownership_type |-> None, property_class |-> None,
     contract_type |-> None, is_rent_to_own_available |-> FALSE]

IdleCall == [fn |-> "none"]

\* _map lines 120-138: condition, garden, furnished and kitchen go through
\* _parse_enumeration_field.
CallParseEnumeration ==
    /\ mcall = IdleCall
    /\ \E field \in EnumerationFields :
         \E text \in EnumerationTexts(FieldMapping(field)) :
           mcall' = [fn |-> "enumeration", field |-> field, arg |-> text,
                     out |-> [NoOutcome EXCEPT
                                !.value = optional_enumeration(field, text)]]
    /\ UNCHANGED <<mbatch, mresults>>

\* The energy class: read and parsed by the detail crawler, and handed
\* through by _map.
CallParseEnergyClass ==
    /\ mcall = IdleCall
    /\ \E text \in EnumerationTexts(EnergyClass) :
         mcall' = [fn |-> "enumeration", field |-> "energy_class",
                   arg |-> text,
                   out |-> [NoOutcome EXCEPT
                              !.value = optional_enumeration("energy_class", text)]]
    /\ UNCHANGED <<mbatch, mresults>>

CallParseType ==
    /\ mcall = IdleCall
    /\ \E type_field \in TypeFields :
         LET r == parse_type_field(type_field)
         IN mcall' = [fn |-> "type", field |-> "type", arg |-> type_field,
                      out |-> [NoOutcome EXCEPT
                                 !.raised = r.raised,
                                 !.property_type = r.property_type,
                                 !.ownership_type = r.ownership_type,
                                 !.property_class = r.property_class]]
    /\ UNCHANGED <<mbatch, mresults>>

\* _map lines 92 and 115-116: the contract type and the rent-to-own flag.
CallParseContract ==
    /\ mcall = IdleCall
    /\ \E contract_field \in ContractFields :
         LET r == parse_contract_field(contract_field)
         IN mcall' = [fn |-> "contract", field |-> "contract",
                      arg |-> contract_field,
                      out |-> [NoOutcome EXCEPT
                                 !.raised = r.raised,
                                 !.contract_type = r.contract_type,
                                 !.is_rent_to_own_available =
                                     IF r.raised = "none"
                                     THEN is_rent_to_own_available(contract_field)
                                     ELSE FALSE]]
    /\ UNCHANGED <<mbatch, mresults>>

\* ---- amenity badges: _map_other_features ----

\* The amenity labels with the boolean field each one sets.
amenity_mapping ==
    <<
      [k |-> <<"A", "r", "m", "a", "d", "i", "o", " ", "a", " ", "m", "u", "r", "o">>,
       v |-> "has_built_in_wardrobe"],
      [k |-> <<"C", "a", "m", "i", "n", "e", "t", "t", "o">>,
       v |-> "has_fireplace"],
      [k |-> <<"C", "a", "m", "p", "o", " ", "d", "a", " ", "t", "e", "n", "n", "i", "s">>,
       v |-> "has_tennis_court"],
      [k |-> <<"C", "a", "n", "c", "e", "l", "l", "o", " ", "e", "l", "e", "t", "t", "r", "i", "c", "o">>,
       v |-> "has_electric_gate"],
      [k |-> <<"C", "u", "c", "i", "n", "a">>,
       v |-> "has_kitchen"],
      [k |-> <<"F", "i", "b", "r", "a", " ", "o", "t", "t", "i", "c", "a">>,
       v |-> "has_fiber_optic"],
      [k |-> <<"G", "i", "a", "r", "d", "i", "n", "o", " ", "p", "r", "i", "v", "a", "t", "o", " ", "e", " ", "c", "o", "m", "u", "n", "e">>,
       v |-> "has_private_or_shared_garden"],
      [k |-> <<"I", "d", "r", "o", "m", "a", "s", "s", "a", "g", "g", "i", "o">>,
       v |-> "has_hot_tub"],
      [k |-> <<"I", "m", "p", "i", "a", "n", "t", "o", " ", "d", "i", " ", "a", "l", "l", "a", "r", "m", "e">>,
       v |-> "has_alarm_system"],
      [k |-> <<"M", "a", "n", "s", "a", "r", "d", "a">>,
       v |-> "has_attic"],
      [k |-> <<"P", "i", "s", "c", "i", "n", "a">>,
       v |-> "has_pool"],
      [k |-> <<"P", "o", "r", "t", "a", " ", "b", "l", "i", "n", "d", "a", "t", "a">>,
       v |-> "has_armored_door"],
      [k |-> <<"R", "e", "c", "e", "p", "t", "i", "o", "n">>,
       v |-> "has_reception"],
      [k |-> <<"T", "a", "v", "e", "r", "n", "a">>,
       v |-> "has_tavern"],
      [k |-> <<"V", "i", "d", "e", "o", "C", "i", "t", "o", "f", "o", "n", "o">>,
       v |-> "has_video_intercom"]
    >>

\* The labels of TvSystem.
IMM_TV_SYSTEM_MAP ==
    <<
      [k |-> <<"I", "m", "p", "i", "a", "n", "t", "o", " ", "t", "v", " ", "c", "e", "n", "t", "r", "a", "l", "i", "z", "z", "a", "t", "o">>,
       v |-> "CENTRALIZED"],
      [k |-> <<"I", "m", "p", "i", "a", "n", "t", "o", " ", "t", "v", " ", "c", "o", "n", " ", "p", "a", "r", "a", "b", "o", "l", "a", " ", "s", "a", "t", "e", "l", "l", "i", "t", "a", "r", "e">>,
       v |-> "SATELLITE"],
      [k |-> <<"I", "m", "p", "i", "a", "n", "t", "o", " ", "t", "v", " ", "s", "i", "n", "g", "o", "l", "o">>,
       v |-> "INDIVIDUAL"]
    >>

\* The labels of WindowMaterial.
IMM_WINDOW_MATERIAL_MAP ==
    <<
      [k |-> <<"l", "e", "g", "n", "o">>,
       v |-> "WOOD"],
      [k |-> <<"m", "e", "t", "a", "l", "l", "o">>,
       v |-> "METAL"],
      [k |-> <<"P", "V", "C">>,
       v |-> "PVC"]
    >>

\* The glass table: immobiliare_enum_mapper defines no IMM_WINDOW_GLASS_MAP;
\* the one table the sources build for window_glass_mapping is the
\* values of WindowGlassType with their members, in declaration order.
window_glass_mapping ==
    <<
      [k |-> <<"v", "e", "t", "r", "o">>,
       v |-> "SINGLE_GLASS"],
      [k |-> <<"d", "o", "p", "p", "i", "o", " ", "v", "e", "t", "r", "o">>,
       v |-> "DOUBLE_GLASS"],
      [k |-> <<"t", "r", "i", "p", "l", "o", " ", "v", "e", "t", "r", "o">>,
       v |-> "TRIPLE_GLASS"]
    >>

Esposizione == <<"e", "s", "p", "o", "s", "i", "z", "i", "o", "n", "e">>

\* The amenities dictionary: the boolean fields set, and the four values.
NoAmenities ==
    [flags |-> {}, window_glass_type |-> None, window_material |-> None,
     tv_system |-> None, sun_exposure |-> <<>>]

\* for key, member in mapping.items(): if key in text: ...; break
FirstContained(mapping, text, lowerKeys) ==
    LET key(k) == IF lowerKeys THEN Lower(mapping[k].k) ELSE mapping[k].k
        hits == {k \in 1 .. Len(mapping) : Contains(text, key(k))}
    IN IF hits = {} THEN None
       ELSE mapping[CHOOSE k \in hits : \A j \in hits : k <= j].v

\* Glass and material are looked for in the lowercased badge, the TV
\* system in the badge as it is; a key that is not found leaves the entry
\* of the dictionary as it was.
parse_composite_amenity(amenity_value, amenities) ==
    LET amenity_lower == Lower(amenity_value)
        glass == FirstContained(window_glass_mapping, amenity_lower, FALSE)
        material == FirstContained(IMM_WINDOW_MATERIAL_MAP, amenity_lower, TRUE)
        tv == FirstContained(IMM_TV_SYSTEM_MAP, amenity_value, FALSE)
    IN [amenities EXCEPT
          !.window_glass_type = IF glass # None THEN glass ELSE @,
          !.window_material = IF material # None THEN material ELSE @,
          !.tv_system = IF tv # None THEN tv ELSE @,
          !.sun_exposure = IF Contains(amenity_lower, Esposizione)
                           THEN amenity_value ELSE @]

\* One turn of the loop over the badges.
map_feature(feature, amenities) ==
    LET amenity_value == Strip(feature)
        direct == IF HasKey(amenity_mapping, amenity_value)
                  THEN [amenities EXCEPT
                          !.flags = @ \cup {Get(amenity_mapping, amenity_value)}]
                  ELSE amenities
    IN IF amenity_value = <<>> THEN amenities
       ELSE parse_composite_amenity(amenity_value, direct)

RECURSIVE map_features(_, _)
map_features(features, amenities) ==
    IF features = <<>> THEN amenities
    ELSE map_features(Tail(features), map_feature(Head(features), amenities))

\* None for an empty list and for an empty dictionary, else OtherFeatures.
map_other_features(features) ==
    LET amenities == map_features(features, NoAmenities)
    IN [none |-> (features = <<>> \/ amenities = NoAmenities),
        features |-> amenities]

\* The badges handed in: window descriptions, a direct label as it is and
\* padded, a TV system, a sun exposure, an unknown badge and a blank one.
InfissiDoppioVetroPVC ==
    <<"I", "n", "f", "i", "s", "s", "i", " ", "e", "s", "t", "e", "r", "n", "i", " ", "i", "n", " ", "d", "o", "p", "p", "i", "o", " ", "v", "e", "t", "r", "o", " ", "/", " ", "P", "V", "C">>
InfissiTriploVetroLegno ==
    <<"I", "n", "f", "i", "s", "s", "i", " ", "e", "s", "t", "e", "r", "n", "i", " ", "i", "n", " ", "t", "r", "i", "p", "l", "o", " ", "v", "e", "t", "r", "o", " ", "/", " ", "l", "e", "g", "n", "o">>
Caminetto == amenity_mapping[2].k
EsposizioneSud == <<"E", "s", "p", "o", "s", "i", "z", "i", "o", "n", "e", " ", "s", "u", "d">>
UnknownBadge == <<"P", "o", "s", "t", "o", " ", "b", "i", "c", "i">>
Badges ==
    {InfissiDoppioVetroPVC, InfissiTriploVetroLegno, Caminetto,
     <<" ">> \o Caminetto \o <<" ">>, IMM_TV_SYSTEM_MAP[3].k, EsposizioneSud,
     UnknownBadge, <<" ">>}
MaxBadges == 2
FeatureLists == UNION {[1 .. n -> Badges] : n \in 0 .. MaxBadges}

\* _map line 95: the amenity badges of a record.
CallMapOtherFeatures ==
    /\ mcall = IdleCall
    /\ \E features \in FeatureLists :
         mcall' = [fn |-> "other_features", field |-> "other_features",
                   arg |-> features,
                   out |-> [raised |-> "none",
                            value |-> map_other_features(features)]]
    /\ UNCHANGED <<mbatch, mresults>>

\* ---- extract_listing_id ----

Annunci == <<"/", "a", "n", "n", "u", "n", "c", "i", "/">>

\* re.search(r'/annunci/(\d+)/?$', url.strip()): a match starts at i when
\* "/annunci/" stands there, n >= 1 digits follow, and after them the text
\* ends, or one slash and then the end.  Group 1 is the digits; the empty
\* text stands for None (a match has at least one digit).
MatchesAt(text, i, n, optionalSlash) ==
    /\ i + 8 + n <= Len(text)
    /\ SubSeq(text, i, i + 8) = Annunci
    /\ \A k \in i + 9 .. i + 8 + n : text[k] \in DigitChars
    /\ \/ i + 8 + n = Len(text) /\ optionalSlash
       \/ i + 9 + n = Len(text) /\ text[Len(text)] = "/"

ListingIdMatch(url, optionalSlash) ==
    LET text == Strip(url)
        hits == {m \in (1 .. Len(text)) \X (1 .. Len(text)) :
                    MatchesAt(text, m[1], m[2], optionalSlash)}
    IN IF hits = {} THEN <<>>
       ELSE LET m == CHOOSE h \in hits :
                        \A g \in hits : h[1] < g[1] \/ (h[1] = g[1] /\ h[2] >= g[2])
            IN SubSeq(text, m[1] + 9, m[1] + 8 + m[2])

\* (variant: the final slash required, r'/annunci/(\d+)/$')
extract_listing_id_SlashRequired(url) == ListingIdMatch(url, FALSE)

extract_listing_id(url) == ListingIdMatch(url, TRUE)

\* The hrefs handed in: the listing prefix followed by a segment, with and
\* without the final slash, as it is and padded; and hrefs of other shapes.
ListingPrefix ==
    <<"h", "t", "t", "p", "s", ":", "/", "/", "w", "w", "w", ".", "i",
      "m", "m", "o", "b", "i", "l", "i", "a", "r", "e", ".", "i",
      "t", "/", "a", "n", "n", "u", "n", "c", "i", "/">>
IdSegments ==
    {<<"1", "2", "2", "3", "6", "1", "9", "8", "8">>, <<"7">>,
     <<"a", "b", "c">>, <<"1", "2", "a">>, <<"a", "1", "2">>, <<>>}
Urls ==
    {ListingPrefix \o seg \o tail : seg \in IdSegments, tail \in {<<>>, <<"/">>}}
      \cup {<<" ">> \o ListingPrefix \o <<"7">> \o <<"/", " ">>,
            ListingPrefix \o <<"7", "/", "/">>,
            ListingPrefix \o <<"7", "/", "f", "o", "t", "o", "/">>,
            ListingPrefix \o <<"7", "?", "x">>,
            <<"/", "a", "n", "n", "u", "n", "c", "i", "7", "/">>,
            <<>>}

\* scrape line 95: source_id = ImmobiliareIdScraper.extract_listing_id(link)
CallExtractListingId ==
    /\ mcall = IdleCall
    /\ \E url \in Urls :
         mcall' = [fn |-> "extract_listing_id", field |-> "source_id",
                   arg |-> url,
                   out |-> [raised |-> "none", value |-> extract_listing_id(url)]]
    /\ UNCHANGED <<mbatch, mresults>>

\* The caller takes the outcome, and the next lookup can be made.
CallReturns ==
    /\ mcall # IdleCall
    /\ mcall' = IdleCall
    /\ UNCHANGED <<mbatch, mresults>>

\* The records handed to map: a ListingDetails has no other_features.
MapListings ==
    [id : Ids,
     type : {Appartamento, UnknownLabel, Appartamento \o Bar \o NudaProprieta},
     contract : {Vendita, UnknownLabel},
     has_other_features : {FALSE}]

\* A caller maps the records of a batch one after the other.
Normalize ==
    /\ Len(mresults) < Len(mbatch)
    /\ mresults' = Append(mresults, map(mbatch[Len(mresults) + 1]))
    /\ UNCHANGED <<mcall, mbatch>>

MapIdle == mcall = IdleCall /\ mbatch = <<>> /\ mresults = <<>>

\* ------------------------------------------------------------- ListingId

VARIABLES
    identities   \* the ListingId objects alive, and the exception of the
                 \* last operation on them

identityVars == <<identities>>

MaxObjects == 2

\* QuantEstateDataObject.model_config: frozen=True.
frozen == TRUE

Immobiliare == <<"I", "M", "M", "O", "B", "I", "L", "I", "A", "R", "E">>
Sources == {Immobiliare, <<"I", "D", "E", "A">>}
SourceIds == {<<"7">>, <<"8">>, <<"7", " ">>}
Titles == {<<"a">>, <<"b">>}
UrlTexts == {<<"u">>, <<"v">>}
FetchDates == {1, 2}

\* (variant: the title made part of the key)
ListingId_id_WithTitle(self) ==
    self.source \o <<":">> \o self.source_id \o self.title

\* f"{self.source}:{self.source_id}"
ListingId_id(self) == self.source \o <<":">> \o self.source_id

\* ListingId(source=..., source_id=..., title=..., url=...): the strings are
\* stripped (str_strip_whitespace); the cached property id is not computed
\* yet (the empty text stands for the missing cache entry).
NewListingId ==
    /\ Len(identities.objects) < MaxObjects
    /\ \E source \in Sources, source_id \in SourceIds, title \in Titles,
          url \in UrlTexts, fetch_date \in FetchDates :
         identities' =
             [objects |-> Append(identities.objects,
                                 [source |-> Strip(source),
                                  source_id |-> Strip(source_id),
                                  title |-> Strip(title), url |-> Strip(url),
                                  fetch_date |-> fetch_date, id |-> <<>>]),
              raised |-> "none"]

\* listing.id: cached_property computes the value on the first access and
\* hands the stored one back afterwards.
ReadId ==
    \E k \in 1 .. Len(identities.objects) :
        LET self == identities.objects[k]
        IN /\ self.id = <<>>
           /\ identities' =
                  [objects |-> [identities.objects EXCEPT
                                  ![k].id = ListingId_id(self)],
                   raised |-> "none"]

\* listing.source_id = value (or title): a frozen model raises
\* ValidationError and keeps the field; otherwise the field is replaced and
\* a cached id stays what it was.
AssignField ==
    /\ identities.raised = "none"
    /\ \E k \in 1 .. Len(identities.objects) :
         \E field \in {"source_id", "title"} :
           \E value \in (IF field = "title" THEN Titles ELSE SourceIds) :
             IF frozen
             THEN identities' = [identities EXCEPT !.raised = "ValidationError"]
             ELSE identities' =
                      [identities EXCEPT !.objects[k][field] = value]

IdentityIdle == identities = [objects |-> <<>>, raised |-> "none"]

\* ------------------------------------------------------ scroll_to_bottom

VARIABLES
    scroll   \* one call of scroll_to_bottom: its position, the page (its
             \* scrollHeight and the height it has once everything is
             \* loaded), last_height, new_height and the heights measured

scrollVars == <<scroll>>

MaxHeight == 4
Heights == 1 .. MaxHeight

ScrollIdle ==
    scroll = [pc |-> "idle", height |-> 1, full |-> 1, last_height |-> 0,
              new_height |-> 0, measured |-> <<>>]

\* driver.execute_script(...): the script runs, or the driver raises
\* WebDriverException, which scroll_to_bottom lets through.
ScriptOutcomes == {"ok", "WebDriverException"}

\* (variant: the loop left as soon as the page has not shrunk)
ReachedBottom_NotShrunk(new_height, last_height) == new_height >= last_height

\* if new_height == last_height: break
ReachedBottom(new_height, last_height) == new_height = last_height

\* The call, on a page of some height that holds more content to load or
\* none: last_height = driver.execute_script("return ...scrollHeight")
ScrollStart ==
    /\ scroll.pc = "idle"
    /\ \E full \in Heights : \E height \in 1 .. full :
         \E outcome \in ScriptOutcomes :
           scroll' =
               IF outcome = "ok"
               THEN [pc |-> "scroll", height |-> height, full |-> full,
                     last_height |-> height, new_height |-> 0,
                     measured |-> <<height>>]
               ELSE [pc |-> "raised", height |-> height, full |-> full,
                     last_height |-> 0, new_height |-> 0, measured |-> <<>>]

\* window.scrollTo(0, document.body.scrollHeight) and time.sleep(pause_time):
\* while the call sleeps the page loads none, some or all of the content
\* it still lacks.
ScrollAndWait ==
    /\ scroll.pc = "scroll"
    /\ \E outcome \in ScriptOutcomes :
         IF outcome = "ok"
         THEN \E height \in scroll.height .. scroll.full :
                scroll' = [scroll EXCEPT !.pc = "measure", !.height = height]
         ELSE scroll' = [scroll EXCEPT !.pc = "raised"]

\* new_height = driver.execute_script("return ...scrollHeight"), the
\* comparison, and either the break or last_height = new_height.
Measure ==
    /\ scroll.pc = "measure"
    /\ \E outcome \in ScriptOutcomes :
         IF outcome = "ok"
         THEN scroll' =
                  [scroll EXCEPT
                     !.new_height = scroll.height,
                     !.measured = Append(@, scroll.height),
                     !.last_height =
                         IF ReachedBottom(scroll.height, scroll.last_height)
                         THEN @ ELSE scroll.height,
                     !.pc = IF ReachedBottom(scroll.height, scroll.last_height)
                            THEN "returned" ELSE "scroll"]
         ELSE scroll' = [scroll EXCEPT !.pc = "raised"]

\* ------------------------------------------------------- scrape() actions

\* State of what a crawl run of ImmobiliareIdScraper never touches.
offCrawlVars ==
    <<siteVars, detailVars, fileCallVars, mapVars, identityVars, scrollVars>>

\* with self.get_driver() as driver
GetDriver ==
    /\ pc = "init"
    /\ IF skind = "mongo" THEN mstate[1] = "ready" ELSE fstate = "ready"
    /\ \E outcome \in {"ok", "no_browser", "config_failed"} :
         LET r == create_driver(outcome)
         IN /\ browser' = r.browser
            /\ created' = created + r.started
            /\ pc' = IF r.raised THEN "raised" ELSE "warmup"
            /\ err' = IF r.raised THEN "ScrapingError" ELSE "none"
    /\ UNCHANGED <<stop, urlPag, page_n, listings, content_elements, total_listings,
                   total_inserted, extracted, flushed, pagesSeen, stepByOne,
                   appendCalls, appendFailed, next_outcome, iter>>
    /\ UNCHANGED <<storageVars, fileVars, settingVars, offCrawlVars>>

\* warmup_driver: get_page(base_url), _close_cookies, _realistic_wait
Warmup ==
    /\ pc = "warmup"
    /\ \E pageOk \in BOOLEAN, w \in WaitOutcomes :
         IF ~pageOk THEN Leave("ScrapingError", "none")
         ELSE IF w # "none" THEN Leave(w, "none")
         ELSE pc' = "navigate" /\ UNCHANGED <<err, stop>>
    /\ UNCHANGED <<browser, created, urlPag, page_n, listings, content_elements, total_listings,
                   total_inserted, extracted, flushed, pagesSeen, stepByOne,
                   appendCalls, appendFailed, next_outcome, iter>>
    /\ UNCHANGED <<storageVars, fileVars, settingVars, offCrawlVars>>

\* get_page(driver, full_scrape_url)
Navigate ==
    /\ pc = "navigate"
    /\ \E pageOk \in BOOLEAN, landed \in {0, 2} :
         IF ~pageOk
         THEN Leave("ScrapingError", "none") /\ UNCHANGED <<urlPag, stepByOne>>
         ELSE /\ pc' = "page"
              /\ urlPag' = landed
              /\ stepByOne' = (get_current_page_number(landed) = 1)
              /\ UNCHANGED <<err, stop>>
    /\ UNCHANGED <<browser, created, page_n, listings, content_elements, total_listings,
                   total_inserted, extracted, flushed, pagesSeen,
                   appendCalls, appendFailed, next_outcome, iter>>
    /\ UNCHANGED <<storageVars, fileVars, settingVars, offCrawlVars>>

\* One pass over the page: page number, random scroll, pacing wait,
\* find_elements and the per-element loop that builds `listings`.
ScrapePage ==
    /\ pc = "page"
    /\ iter < MaxIter
    /\ \E scriptOk \in BOOLEAN, w \in WaitOutcomes, found \in PageContents :
         LET n == get_current_page_number(urlPag)
         IN /\ page_n' = n
            /\ iter' = iter + 1
            /\ IF ~scriptOk
               THEN Leave("WebDriverException", "none")
                    /\ UNCHANGED <<listings, content_elements, extracted, pagesSeen>>
               ELSE IF w # "none"
               THEN Leave(w, "none")
                    /\ UNCHANGED <<listings, content_elements, extracted, pagesSeen>>
               ELSE /\ pc' = "flush"
                    /\ content_elements' = found
                    /\ listings' = scrape_listings(found)
                    /\ extracted' = extracted \cup Range(scrape_listings(found))
                    /\ pagesSeen' = pagesSeen \cup {n}
                    /\ UNCHANGED <<err, stop>>
    /\ UNCHANGED <<browser, created, urlPag, total_listings, total_inserted,
                   flushed, stepByOne, appendCalls, appendFailed, next_outcome>>
    /\ UNCHANGED <<storageVars, fileVars, settingVars, offCrawlVars>>

\* inserted_count = self.storage.append_data(listings), MongoDBStorage: call
FlushCall ==
    /\ pc = "flush"
    /\ skind = "mongo"
    /\ AppendCall(1, listings)
    /\ pc' = "flushing"
    /\ appendCalls' = appendCalls + 1
    /\ UNCHANGED <<coll, docRev, hasIndex, mstate, counted, calls>>
    /\ UNCHANGED <<err, stop, browser, created, urlPag, page_n, listings, content_elements,
                   total_listings, total_inserted, extracted, flushed,
                   pagesSeen, stepByOne, appendFailed, next_outcome, iter>>
    /\ UNCHANGED <<fileVars, settingVars, offCrawlVars>>

\* ... and its return: the counters are updated, or StorageError leaves scrape().
FlushReturn ==
    /\ pc = "flushing"
    /\ op[1].phase \in {"returned", "raised"}
    /\ IF op[1].phase = "raised" /\ PropagatesStorageError
       THEN /\ Leave("StorageError", "none")
            /\ UNCHANGED <<total_listings, total_inserted, flushed>>
       ELSE /\ pc' = "check"
            /\ total_listings' = total_listings + Len(listings)
            /\ total_inserted' = total_inserted + op[1].result
            /\ flushed' = IF op[1].phase = "raised" THEN flushed
                          ELSE flushed \cup Range(listings)
            /\ UNCHANGED <<err, stop>>
    /\ op' = [op EXCEPT ![1] = IdleOp]
    /\ UNCHANGED <<coll, docRev, hasIndex, mstate, clients, counted, calls>>
    /\ UNCHANGED <<browser, created, urlPag, page_n, listings, content_elements, extracted,
                   pagesSeen, stepByOne, appendCalls, appendFailed,
                   next_outcome, iter>>
    /\ UNCHANGED <<fileVars, settingVars, offCrawlVars>>

\* inserted_count = self.storage.append_data(listings), FileStorage
FlushFile ==
    /\ pc = "flush"
    /\ skind = "file"
    /\ \E ioOk \in BOOLEAN, written \in 0 .. Len(listings) :
         LET r == file_append_data(listings, fileRows, fieldNames, ioOk, written)
         IN /\ fileRows' = r.rows
            /\ IF r.raised /\ PropagatesStorageError
               THEN /\ Leave("StorageError", "none")
                    /\ UNCHANGED <<total_listings, total_inserted, flushed>>
               ELSE /\ pc' = "check"
                    /\ total_listings' = total_listings + Len(listings)
                    /\ total_inserted' = total_inserted + r.count
                    /\ flushed' = IF r.raised THEN flushed
                                  ELSE flushed \cup Range(listings)
                    /\ UNCHANGED <<err, stop>>
            /\ appendFailed' = (appendFailed \/ (listings # <<>> /\ ~ioOk))
    /\ appendCalls' = appendCalls + 1
    /\ UNCHANGED <<fstate, fieldNames, fileHeader>>
    /\ UNCHANGED <<browser, created, urlPag, page_n, listings, content_elements, extracted,
                   pagesSeen, stepByOne, next_outcome, iter>>
    /\ UNCHANGED <<storageVars, settingVars, offCrawlVars>>

\* The two stop conditions tested after the flush.
CheckStop ==
    /\ pc = "check"
    /\ IF LimitReached(total_listings, total_inserted, listing_limit)
       THEN Leave("none", "limit")
       ELSE IF MaxPagesReached(page_n, max_pages)
       THEN Leave("none", "max_pages")
       ELSE pc' = "advance" /\ UNCHANGED <<err, stop>>
    /\ UNCHANGED <<browser, created, urlPag, page_n, listings, content_elements, total_listings,
                   total_inserted, extracted, flushed, pagesSeen, stepByOne,
                   appendCalls, appendFailed, next_outcome, iter>>
    /\ UNCHANGED <<storageVars, fileVars, settingVars, offCrawlVars>>

\* _realistic_wait, scroll_to_bottom, to_next_page.  After a click the
\* browser shows the next page, the same page again, or a later one (the
\* selector a[href*="pag=N"] also matches links to other pages).
Advance ==
    /\ pc = "advance"
    /\ \E w \in WaitOutcomes, scrollOk \in BOOLEAN, outcome \in NextOutcomes,
          jump \in 0 .. 2 :
         IF w # "none"
         THEN Leave(w, "none") /\ UNCHANGED <<urlPag, stepByOne, next_outcome>>
         ELSE IF ~scrollOk
         THEN Leave("WebDriverException", "none")
              /\ UNCHANGED <<urlPag, stepByOne, next_outcome>>
         ELSE /\ next_outcome' = outcome
              /\ IF BreaksWithoutNext(to_next_page(outcome))
                 THEN Leave("none", "no_next") /\ UNCHANGED <<urlPag, stepByOne>>
                 ELSE /\ pc' = "page"
                      /\ urlPag' = IF outcome = "clicked" THEN page_n + jump
                                   ELSE urlPag
                      /\ stepByOne' = (stepByOne /\ urlPag' = page_n + 1)
                      /\ UNCHANGED <<err, stop>>
    /\ UNCHANGED <<browser, created, page_n, listings, content_elements, total_listings,
                   total_inserted, extracted, flushed, pagesSeen,
                   appendCalls, appendFailed, iter>>
    /\ UNCHANGED <<storageVars, fileVars, settingVars, offCrawlVars>>

\* Leaving the with block: the finally clause of get_driver.
Quit ==
    /\ pc = "exiting"
    /\ \E quitOk \in BOOLEAN : \E b \in QuitResults(quitOk) : browser' = b
    /\ pc' = IF err = "none" THEN "returned" ELSE "raised"
    /\ UNCHANGED <<err, stop, created, urlPag, page_n, listings, content_elements, total_listings,
                   total_inserted, extracted, flushed, pagesSeen, stepByOne,
                   appendCalls, appendFailed, next_outcome, iter>>
    /\ UNCHANGED <<storageVars, fileVars, settingVars, offCrawlVars>>

CrawlInit ==
    /\ skind \in {"mongo", "file"}
    /\ max_pages \in 1 .. MaxSetting
    /\ listing_limit \in 1 .. MaxSetting + 1
    /\ min_delay \in {0, 10}
    /\ fstate = "new" /\ fieldNames = FALSE /\ fileHeader = <<>> /\ fileRows = <<>>
    /\ pc = "init" /\ err = "none" /\ stop = "none"
    /\ browser = "none" /\ created = 0 /\ urlPag = 0
    /\ page_n = 0 /\ listings = <<>> /\ content_elements = <<>>
    /\ total_listings = 0 /\ total_inserted = 0
    /\ extracted = {} /\ flushed = {} /\ pagesSeen = {}
    /\ stepByOne = TRUE /\ appendCalls = 0 /\ iter = 0
    /\ appendFailed = FALSE /\ next_outcome = "none"

vars == <<storageVars, fileVars, settingVars, crawlVars, offCrawlVars>>

\* Result pages made of well-formed listing cards only.
SiteClean == cards = {"listing"}

\* Result pages that also hold cards scrape() has to skip.
SiteMixed == cards = CardKinds

\* One crawl run of ImmobiliareIdScraper with the storage it was handed.
Init ==
    /\ StorageInit /\ CrawlInit /\ SiteClean /\ DetailIdle /\ FileCallIdle
    /\ MapIdle /\ IdentityIdle /\ ScrollIdle

Next ==
    \/ (skind = "mongo" /\ MongoDBStorage_init(1)
          /\ UNCHANGED <<fileVars, settingVars, crawlVars, offCrawlVars>>)
    \/ (skind = "file" /\ FileStorage_init
          /\ UNCHANGED <<storageVars, settingVars, crawlVars, offCrawlVars>>)
    \/ (pc = "flushing" /\ InsertOne(1) /\ UNCHANGED <<fileVars, settingVars, crawlVars, offCrawlVars>>)
    \/ (pc = "flushing" /\ InsertDone(1) /\ UNCHANGED <<fileVars, settingVars, crawlVars, offCrawlVars>>)
    \/ (pc = "flushing" /\ InsertFails(1) /\ appendFailed' = TRUE
          /\ UNCHANGED <<fileVars, settingVars, offCrawlVars, pc, err, stop, browser, created,
                         urlPag, page_n, listings, content_elements, total_listings,
                         total_inserted, extracted, flushed, pagesSeen,
                         stepByOne, appendCalls, next_outcome, iter>>)
    \/ GetDriver
    \/ Warmup
    \/ Navigate
    \/ ScrapePage
    \/ FlushCall
    \/ FlushReturn
    \/ FlushFile
    \/ CheckStop
    \/ Advance
    \/ Quit

Spec == Init /\ [][Next]_vars

InitStorage ==
    /\ StorageInit
    /\ CrawlInit
    /\ SiteClean
    /\ DetailIdle
    /\ FileCallIdle
    /\ MapIdle
    /\ IdentityIdle /\ ScrollIdle
    /\ skind = "mongo" /\ max_pages = 1 /\ listing_limit = 1 /\ min_delay = 10

\* No DocumentStorage operation is in progress.
Quiet == \A t \in Stores : op[t].phase = "idle"

\* DocumentStorage operations one after the other: both instances are
\* constructed against the same collection at some point, and instance 1
\* is handed one batch after the other.
NextStorage ==
    \/ \E s \in Stores : (Quiet /\ MongoDBStorage_init(s)
                            /\ UNCHANGED <<fileVars, settingVars, crawlVars, offCrawlVars>>)
    \/ (calls[1] < MaxCalls /\ InstanceAppend(1)
          /\ UNCHANGED <<fileVars, settingVars, crawlVars, offCrawlVars>>)
    \/ (InsertOne(1) /\ UNCHANGED <<fileVars, settingVars, crawlVars, offCrawlVars>>)
    \/ (InsertDone(1) /\ UNCHANGED <<fileVars, settingVars, crawlVars, offCrawlVars>>)
    \/ (InsertFails(1) /\ UNCHANGED <<fileVars, settingVars, crawlVars, offCrawlVars>>)
    \/ (InstanceTakesResult(1) /\ UNCHANGED <<fileVars, settingVars, crawlVars, offCrawlVars>>)

\* One crawl run over result pages with cards of every kind, stopped for the
\* limit by the first page that yields a listing and for the page count on
\* page 2.
InitPage ==
    /\ StorageInit
    /\ CrawlInit
    /\ SiteMixed
    /\ DetailIdle
    /\ FileCallIdle
    /\ MapIdle
    /\ IdentityIdle /\ ScrollIdle
    /\ max_pages = 2 /\ listing_limit = 1 /\ min_delay = 10

SpecPage == InitPage /\ [][Next]_vars

SpecStorage == InitStorage /\ [][NextStorage]_vars

\* Two crawler instances, each with its own DocumentStorage, appending to
\* the same collection in any interleaving.
NextConcurrent ==
    \/ \E s \in Stores : (MongoDBStorage_init(s)
                            /\ UNCHANGED <<fileVars, settingVars, crawlVars, offCrawlVars>>)
    \/ \E s \in Stores : (calls[s] < MaxOverlap /\ InstanceAppend(s)
                            /\ UNCHANGED <<fileVars, settingVars, crawlVars, offCrawlVars>>)
    \/ \E s \in Stores : (InsertOne(s) /\ UNCHANGED <<fileVars, settingVars, crawlVars, offCrawlVars>>)
    \/ \E s \in Stores : (InsertDone(s) /\ UNCHANGED <<fileVars, settingVars, crawlVars, offCrawlVars>>)
    \/ \E s \in Stores : (InsertFails(s) /\ UNCHANGED <<fileVars, settingVars, crawlVars, offCrawlVars>>)
    \/ \E s \in Stores : (InstanceTakesResult(s)
                            /\ UNCHANGED <<fileVars, settingVars, crawlVars, offCrawlVars>>)

SpecConcurrent == InitStorage /\ [][NextConcurrent]_vars

\* One run of ImmobiliareListingScraper.scrape() for one listing.
InitDetail ==
    /\ StorageInit
    /\ CrawlInit
    /\ SiteClean
    /\ skind = "mongo" /\ max_pages = 1 /\ listing_limit = 1
    /\ dpc = "init" /\ DetailFresh
    /\ FileCallIdle
    /\ MapIdle
    /\ IdentityIdle /\ ScrollIdle

offDetailVars ==
    <<storageVars, fileVars, settingVars, crawlVars, siteVars, fileCallVars,
      mapVars, identityVars, scrollVars>>

NextDetail ==
    \/ (DetailGetDriver /\ UNCHANGED offDetailVars)
    \/ (DetailNavigate /\ UNCHANGED offDetailVars)
    \/ (DetailExtract /\ UNCHANGED offDetailVars)
    \/ (DetailOpenDialog /\ UNCHANGED offDetailVars)
    \/ (DetailQuit /\ UNCHANGED offDetailVars)
    \/ (DetailBuild /\ UNCHANGED offDetailVars)
    \/ (DetailAppend /\ UNCHANGED offDetailVars)

SpecDetail == InitDetail /\ [][NextDetail]_vars

\* One FileStorage, constructed and then handed one batch after the other.
InitFile ==
    /\ StorageInit
    /\ CrawlInit
    /\ SiteClean
    /\ DetailIdle
    /\ FileCallIdle
    /\ MapIdle
    /\ IdentityIdle /\ ScrollIdle
    /\ skind = "file" /\ max_pages = 1 /\ listing_limit = 1 /\ min_delay = 10

offFileVars ==
    <<storageVars, settingVars, crawlVars, siteVars, detailVars, mapVars,
      identityVars, scrollVars>>

NextFile ==
    \/ (FileStorage_init /\ UNCHANGED <<offFileVars, fileCallVars>>)
    \/ (FileInstanceAppend /\ UNCHANGED offFileVars)

SpecFile == InitFile /\ [][NextFile]_vars

\* State of what the ListingDataTransformer never touches.
offMapVars ==
    <<storageVars, fileVars, settingVars, crawlVars, siteVars, detailVars,
      fileCallVars, identityVars, scrollVars>>

InitIdle ==
    /\ StorageInit
    /\ CrawlInit
    /\ SiteClean
    /\ DetailIdle
    /\ FileCallIdle
    /\ skind = "mongo" /\ max_pages = 1 /\ listing_limit = 1 /\ min_delay = 10

\* The lookups of the transformer, made one after the other with texts of
\* every kind.
InitParse == InitIdle /\ MapIdle /\ IdentityIdle /\ ScrollIdle

NextParse ==
    \/ (CallParseEnumeration /\ UNCHANGED offMapVars)
    \/ (CallParseEnergyClass /\ UNCHANGED offMapVars)
    \/ (CallParseType /\ UNCHANGED offMapVars)
    \/ (CallParseContract /\ UNCHANGED offMapVars)
    \/ (CallMapOtherFeatures /\ UNCHANGED offMapVars)
    \/ (CallExtractListingId /\ UNCHANGED offMapVars)
    \/ (CallReturns /\ UNCHANGED offMapVars)

SpecParse == InitParse /\ [][NextParse]_vars

\* One transformer maps the records of a batch, whatever the batch.
InitMap ==
    /\ InitIdle
    /\ mcall = IdleCall
    /\ mbatch \in UNION {[1 .. n -> MapListings] : n \in 0 .. MaxBatch}
    /\ mresults = <<>>
    /\ IdentityIdle /\ ScrollIdle

NextMap == (Normalize /\ UNCHANGED offMapVars)

SpecMap == InitMap /\ [][NextMap]_vars

\* ListingId objects: constructed, their id read, assignments attempted.
offIdentityVars ==
    <<storageVars, fileVars, settingVars, crawlVars, siteVars, detailVars,
      fileCallVars, mapVars, scrollVars>>

NextIdentity ==
    \/ (NewListingId /\ UNCHANGED offIdentityVars)
    \/ (ReadId /\ UNCHANGED offIdentityVars)
    \/ (AssignField /\ UNCHANGED offIdentityVars)

SpecIdentity == InitParse /\ [][NextIdentity]_vars

\* One call of scroll_to_bottom.  The call is sequential code of one
\* thread: a step that can be taken is taken (execute_script answers or
\* raises within the driver's script timeout, sleep returns).
offScrollVars ==
    <<storageVars, fileVars, settingVars, crawlVars, siteVars, detailVars,
      fileCallVars, mapVars, identityVars>>

NextScroll ==
    \/ (ScrollStart /\ UNCHANGED offScrollVars)
    \/ (ScrollAndWait /\ UNCHANGED offScrollVars)
    \/ (Measure /\ UNCHANGED offScrollVars)

SpecScroll ==
    /\ InitParse
    /\ [][NextScroll]_vars
    /\ WF_scroll(ScrollStart) /\ WF_scroll(ScrollAndWait) /\ WF_scroll(Measure)

\* ======================================================== properties

\* An append_data call of instance s for a batch of distinct ids has
\* returned a count.
Returned(s) ==
    /\ op[s].phase = "returned"
    /\ op[s].batch # <<>>
    /\ Distinct(op[s].batch)

\* C1 (SpecStorage): a batch of distinct ids none of which is stored is
\* reported as len(batch) new documents; a batch all of whose ids are stored
\* already (the same batch appended again) is reported as 0 and leaves the
\* collection as it was.
C1_AppendIdempotent ==
    \A s \in Stores :
        Returned(s) =>
            /\ (Range(op[s].batch) \cap op[s].pre = {}
                    => op[s].result = Len(op[s].batch))
            /\ (Range(op[s].batch) \subseteq op[s].pre
                    => op[s].result = 0 /\ coll = op[s].collStart)

\* C2 (SpecConcurrent): whatever the interleaving of the instances' append
\* calls, no id is carried by two documents of the collection, and no id is
\* included in the count returned by more than one call.
C2_NoDoubleStorage ==
    \A i \in Ids : coll[i] <= 1 /\ counted[i] <= 1

\* C3 (SpecStorage): for a batch that mixes k new ids with ids stored
\* already, append_data inserts each of the k new ones, whatever their
\* position, and returns k.
C3_PartialBulkWriteRecovery ==
    \A s \in Stores :
        LET new == Range(op[s].batch) \ op[s].pre
        IN (Returned(s) /\ new # {} /\ new # Range(op[s].batch)) =>
              /\ op[s].result = Cardinality(new)
              /\ \A i \in new : coll[i] = op[s].collStart[i] + 1
              /\ \A i \in Range(op[s].batch) \ new : coll[i] = op[s].collStart[i]

\* C4 as stated (Spec): the loop is left for the limit exactly when the sum
\* of the counts returned by append_data has reached listing_limit.
C4_StopsOnStoredCount ==
    /\ stop = "limit" => total_inserted >= listing_limit
    /\ pc = "advance" => total_inserted < listing_limit

\* C4 amended (Spec): the loop is left for the limit after the first page
\* at which the number of identities scraped so far (the sum of the sizes of
\* the batches handed to append_data) is >= listing_limit; while that
\* number is below the limit the run is not stopped for the limit, and the
\* next page is only turned to with the number below the limit.
C4_StopsOnScrapedCount ==
    /\ stop = "limit" => total_listings >= listing_limit
    /\ pc = "advance" => total_listings < listing_limit
    /\ (pc = "page" /\ iter > 0) => total_listings < listing_limit

C4_Witness ==
    /\ pc = "returned"
    /\ stop = "limit"
    /\ iter = 2
    /\ total_inserted < listing_limit

\* C5 (Spec): the loop is left once a page numbered >= max_pages has been
\* processed, and in a run that starts on page 1 and advances by one page
\* per click no page numbered above max_pages is extracted.
C5_MaxPagesStop ==
    /\ stop = "max_pages" => page_n >= max_pages
    /\ pc = "advance" => page_n < max_pages
    /\ stepByOne => \A p \in pagesSeen : p <= max_pages

C5_Witness ==
    /\ pc = "returned"
    /\ stop = "max_pages"
    /\ stepByOne
    /\ pagesSeen = 1 .. max_pages
    /\ max_pages = 2

FailedNext == next_outcome \in {"not_found", "not_enabled", "click_failed"}

\* C6 (Spec): once to_next_page has not found, not been able to use or
\* failed to click the next-page control, scrape is on its way out: no
\* further iteration starts, no page is extracted, append_data is not called.
C6_NoNextIsTerminal ==
    [][FailedNext' =>
          /\ pc' \in {"exiting", "returned"}
          /\ stop' = "no_next"
          /\ iter' = iter
          /\ pagesSeen' = pagesSeen
          /\ appendCalls' = appendCalls]_vars

C6_Witness ==
    /\ next_outcome = "not_found"
    /\ pc = "returned"
    /\ iter = 2

\* What the storage handed to the scraper holds.
Persisted == IF skind = "mongo" THEN Stored(coll) ELSE Range(fileRows)

\* C7 (Spec): when the scraper turns to the next page everything extracted
\* so far has been appended; at any moment the identities extracted and not
\* yet appended are among those of the current page, and whatever was
\* appended is in the storage.
C7_FlushBeforeAdvance ==
    /\ pc = "advance" => extracted \subseteq flushed
    /\ (extracted \ flushed) \subseteq Range(listings)
    /\ flushed \subseteq Persisted

C7_Witness ==
    /\ pc = "flush"
    /\ iter = 2
    /\ flushed # {}
    /\ ~(Range(listings) \subseteq flushed)

\* C8 (Spec): once scrape has returned or raised, the run has started at
\* most one browser process and that process is not alive.
C8_BrowserTerminated ==
    pc \in {"returned", "raised"} => (created <= 1 /\ browser # "alive")

\* C9 (SpecStorage): a DocumentStorage holds an open client only while its
\* insert_many is running; after a construction that completed or raised,
\* after an append that returned and after an append that raised, and after
\* any sequence of those, none is open.
C9_ScopedClients ==
    \A s \in Stores : clients[s] = IF op[s].phase = "insert" THEN 1 ELSE 0

C9_Witness ==
    /\ op[1].phase = "raised"
    /\ op[1].ins # <<>>
    /\ calls[1] = 2
    /\ mstate[2] = "failed"
    /\ clients = [s \in Stores |-> 0]

MarkedAuction(e) ==
    /\ e.text # Unreadable
    /\ \/ Contains(Lower(e.text), PriceFrom)
       \/ Contains(Lower(e.text), AuctionLiteral)

Survives(e) ==
    /\ e.anchor /\ e.href /\ e.title
    /\ e.source_id # 0
    /\ ~MarkedAuction(e)

IdsOf(elems) == [k \in 1 .. Len(elems) |-> elems[k].source_id]

\* C11 (SpecPage): the listings of a page are the ids of its elements that
\* have a link, a title and a parseable id, are not marked as auction and
\* whose processing does not raise, one ListingId each and in page order;
\* no element aborts the page, and the page is handed to append_data.
C11_SkipsBadElements ==
    /\ pc \in {"flush", "flushing", "check", "advance"}
          => listings = IdsOf(SelectSeq(content_elements, Survives))
    /\ pc \in {"check", "advance"} => appendCalls = iter

\* C12 (SpecDetail): when the characteristics dialog could not be opened,
\* scrape is on its way out with ScrapingError; it builds no ListingDetails
\* and makes no append_data call.
C12_PanelIsRequired ==
    dialog_element = "None" =>
        /\ dpc \in {"exiting", "raised"}
        /\ derr = "ScrapingError"
        /\ listing_details = NoDetails
        /\ detail_appends = <<>>

\* C13 (SpecDetail): whatever is handed to append_data has a surface that
\* was parsed to a number, a property type and a contract, all read from
\* the dialog; and when the dialog lacks one of the three or the surface
\* text holds no number, the run that got that far ends raising, without an
\* append_data call.
C13_NoPartialRecords ==
    /\ \A k \in 1 .. Len(detail_appends) :
          /\ detail_appends[k].surface # NoNumber
          /\ detail_appends[k].type # <<>>
          /\ detail_appends[k].contract # <<>>
    /\ (/\ dialog_element = "dialog"
        /\ \/ FirstNumber(characteristics["Superficie"]) = NoNumber
           \/ characteristics["Tipologia"] = <<>>
           \/ characteristics["Contratto"] = <<>>)
          => /\ dpc \in {"exiting", "build", "raised"}
             /\ detail_appends = <<>>
\* C14: once a FileStorage is constructed, whatever appends follow, its
\* session file holds exactly one header row, the declared fields followed
\* by the computed fields; every append whose file can be written returns
\* the number of items it was passed; and the data rows are the items of
\* the appends in call order, duplicates included.
C14_FlatFileShape ==
    fstate = "ready" =>
        /\ fileHeader =
             << <<"source", "source_id", "title", "url", "fetch_date", "id">> >>
        /\ (fop.phase # "idle" /\ fop.io) =>
               /\ fop.phase = "returned"
               /\ fop.result = Len(fop.data)
        /\ ~fraised => fileRows = file_appended

\* C15: whenever the construction of a DocumentStorage has completed, the
\* collection has the unique index on id, and building the index again on
\* a collection that has it succeeds and leaves it in place.
C15_UniqueIndexAtConstruction ==
    /\ \A s \in Stores : mstate[s] = "ready" => hasIndex
    /\ hasIndex => create_index(hasIndex, coll, TRUE) = [ok |-> TRUE, has |-> TRUE]

\* C16: when an append has returned, every id of its batch is stored in
\* exactly one document, and that document is the item this append carried
\* (inserted when the id was absent, replacing the stored one otherwise).
C16_UpsertReplaces ==
    \A s \in Stores :
        op[s].phase = "returned" =>
            \A k \in 1 .. Len(op[s].batch) :
                /\ coll[op[s].batch[k]] = 1
                /\ docRev[op[s].batch[k]] = op[s].rev

\* A type whose first segment is no property-type label, whatever its
\* case; a contract in which no contract label occurs.
UnknownPropertyType(type_field) ==
    \A k \in 1 .. Len(IMM_PROPERTY_TYPE_MAP) :
        Lower(IMM_PROPERTY_TYPE_MAP[k].k) # Lower(Strip(Split(type_field, "|")[1]))
UnknownContractType(contract_field) ==
    \A k \in 1 .. Len(IMM_CONTRACT_TYPE_MAP) :
        ~Contains(contract_field, IMM_CONTRACT_TYPE_MAP[k].k)
Unknown(listing) ==
    UnknownPropertyType(listing.type) \/ UnknownContractType(listing.contract)
Without(q, k) == SubSeq(q, 1, k - 1) \o SubSeq(q, k + 1, Len(q))
MapAll(batch) == [k \in 1 .. Len(batch) |-> map(batch[k])]

C18_OptionalEnumerationsNeverFail ==
    mcall.fn = "enumeration" =>
        LET mapping == FieldMapping(mcall.field)
            raw == Strip(mcall.arg)
            exact == {k \in 1 .. Len(mapping) : mapping[k].k = raw}
            same == {k \in 1 .. Len(mapping) :
                        Lower(mapping[k].k) = Lower(raw)}
        IN /\ mcall.out.raised = "none"
           /\ mcall.out.value \in
                  {mapping[k].v : k \in 1 .. Len(mapping)} \cup {None}
           /\ exact # {} => mcall.out.value \in {mapping[k].v : k \in exact}
           /\ (exact = {} /\ same # {}) =>
                  mcall.out.value \in {mapping[k].v : k \in same}
           /\ same = {} => mcall.out.value = None

C18_Witness ==
    /\ mcall.fn = "enumeration"
    /\ mcall.field = "kitchen"
    /\ mcall.arg = Upper(IMM_KITCHEN_MAP[1].k)
    /\ mcall.arg # IMM_KITCHEN_MAP[1].k
    /\ mcall.out.value = "HABITABLE"

\* The segments of a composite field: its parts between the bars, stripped,
\* the empty ones left out.
Segments(text) ==
    LET parts == Split(text, "|")
    IN SelectSeq([k \in 1 .. Len(parts) |-> Strip(parts[k])], NonEmpty)

C20_ContractDecomposition ==
    mcall.fn = "contract" =>
        /\ (Contains(mcall.arg, Vendita) /\ Contains(mcall.arg, Riscatto)) =>
               /\ mcall.out.raised = "none"
               /\ mcall.out.contract_type = "SALE"
               /\ mcall.out.is_rent_to_own_available
        /\ \A k \in 1 .. Len(IMM_CONTRACT_TYPE_MAP) :
               (/\ Contains(mcall.arg, IMM_CONTRACT_TYPE_MAP[k].k)
                /\ \A j \in 1 .. Len(IMM_CONTRACT_TYPE_MAP) :
                      j # k => ~Contains(mcall.arg, IMM_CONTRACT_TYPE_MAP[j].k))
               => /\ mcall.out.raised = "none"
                  /\ mcall.out.contract_type = IMM_CONTRACT_TYPE_MAP[k].v
        /\ mcall.out.raised = "none" =>
               (mcall.out.is_rent_to_own_available
                    <=> Contains(mcall.arg, Riscatto))

\* A badge that sets something: a direct label, or a text in which a glass
\* type, a window material, a TV system or the sun-exposure marker occurs.
Resolves(badge) ==
    \/ HasKey(amenity_mapping, Strip(badge))
    \/ \E k \in 1 .. Len(window_glass_mapping) :
           Contains(Lower(badge), window_glass_mapping[k].k)
    \/ \E k \in 1 .. Len(IMM_WINDOW_MATERIAL_MAP) :
           Contains(Lower(badge), Lower(IMM_WINDOW_MATERIAL_MAP[k].k))
    \/ \E k \in 1 .. Len(IMM_TV_SYSTEM_MAP) :
           Contains(badge, IMM_TV_SYSTEM_MAP[k].k)
    \/ Contains(Lower(badge), Esposizione)

\* C21: the badge "Infissi esterni in doppio vetro / PVC" gives the glass
\* type DOUBLE_GLASS and the material PVC (here: when it is the one window
\* description of the list); a badge that matches nothing is dropped
\* without raising, so that the list gives what it gives without that
\* badge; and the result is None exactly when no badge of the list
\* resolved to anything.
C21_AmenityMapping ==
    mcall.fn = "other_features" =>
        /\ mcall.out.raised = "none"
        /\ (/\ \E k \in 1 .. Len(mcall.arg) : mcall.arg[k] = InfissiDoppioVetroPVC
            /\ \A k \in 1 .. Len(mcall.arg) :
                   mcall.arg[k] # InfissiTriploVetroLegno)
           => /\ ~mcall.out.value.none
              /\ mcall.out.value.features.window_glass_type = "DOUBLE_GLASS"
              /\ mcall.out.value.features.window_material = "PVC"
        /\ \A k \in 1 .. Len(mcall.arg) :
               ~Resolves(mcall.arg[k]) =>
                   mcall.out.value.features
                       = map_other_features(Without(mcall.arg, k)).features
        /\ mcall.out.value.none
               <=> \A k \in 1 .. Len(mcall.arg) : ~Resolves(mcall.arg[k])

\* (the same with the glass type left out: what the code does give for the
\* badge, the dropped badges and the None result)
C21_AllButGlassType ==
    mcall.fn = "other_features" =>
        /\ mcall.out.raised = "none"
        /\ (/\ \E k \in 1 .. Len(mcall.arg) : mcall.arg[k] = InfissiDoppioVetroPVC
            /\ \A k \in 1 .. Len(mcall.arg) :
                   mcall.arg[k] # InfissiTriploVetroLegno)
           => /\ ~mcall.out.value.none
              /\ mcall.out.value.features.window_glass_type = "SINGLE_GLASS"
              /\ mcall.out.value.features.window_material = "PVC"
        /\ \A k \in 1 .. Len(mcall.arg) :
               ~Resolves(mcall.arg[k]) =>
                   mcall.out.value.features
                       = map_other_features(Without(mcall.arg, k)).features
        /\ mcall.out.value.none
               <=> \A k \in 1 .. Len(mcall.arg) : ~Resolves(mcall.arg[k])

\* C22: parsing "82 m2" (with the superscript two) gives 82.0; parsing
\* "82", where the unit is missing, raises, so that no ListingDetails is
\* built from it; parsing "82,5 m2" gives 82.5, the comma being the decimal
\* separator.
C22_SurfaceParsing ==
    LET surface_str == characteristics["Superficie"]
    IN /\ (listing_details.built /\ surface_str = Surface82m2)
             => listing_details.surface = 82
       /\ surface_str = Surface82
             => (~listing_details.built /\ dpc \notin {"append", "returned"})
       /\ (listing_details.built /\ surface_str = Surface82_5m2)
             => 10 * listing_details.surface = 825

\* C23: for a URL that ends in "/annunci/" and one more segment,
\* extract_listing_id gives the segment when it is a digit string, the same
\* with and without the final slash (".../annunci/122361988/" and
\* ".../annunci/122361988" both give "122361988"), and None when the
\* segment is not all digits (".../annunci/abc/").
C23_ListingIdFromUrl ==
    mcall.fn = "extract_listing_id" =>
        \A seg \in IdSegments, tail \in {<<>>, <<"/">>} :
            mcall.arg = ListingPrefix \o seg \o tail =>
                /\ mcall.out.raised = "none"
                /\ mcall.out.value =
                       IF seg # <<>> /\ \A k \in 1 .. Len(seg) : seg[k] \in DigitChars
                       THEN seg ELSE <<>>

C23_Witness ==
    /\ mcall.fn = "extract_listing_id"
    /\ mcall.arg = ListingPrefix \o <<"1", "2", "2", "3", "6", "1", "9", "8", "8">>
    /\ mcall.out.value = <<"1", "2", "2", "3", "6", "1", "9", "8", "8">>

\* C24: the id of a ListingId is its source, a colon and its source_id;
\* two identities with the same source and source_id have the same id
\* whatever their title, url and fetch date; and an id, once read, stays
\* what it is as long as the object lives.
C24_IdentityKey ==
    /\ [](\A k \in 1 .. Len(identities.objects) :
            LET self == identities.objects[k]
            IN /\ self.id # <<>> =>
                      self.id = self.source \o <<":">> \o self.source_id
               /\ \A j \in 1 .. Len(identities.objects) :
                      LET other == identities.objects[j]
                      IN (/\ self.id # <<>> /\ other.id # <<>>
                          /\ self.source = other.source
                          /\ self.source_id = other.source_id)
                         => self.id = other.id)
    /\ [][\A k \in 1 .. Len(identities.objects) :
            identities.objects[k].id # <<>> =>
                /\ k <= Len(identities'.objects)
                /\ identities'.objects[k].id = identities.objects[k].id
                /\ identities'.objects[k].source = identities.objects[k].source
                /\ identities'.objects[k].source_id
                       = identities.objects[k].source_id]_vars

C24_Witness ==
    /\ Len(identities.objects) = 2
    /\ identities.objects[1].id = Immobiliare \o <<":", "7">>
    /\ identities.objects[2].id = identities.objects[1].id
    /\ identities.objects[1].title # identities.objects[2].title
    /\ identities.objects[1].url # identities.objects[2].url
    /\ identities.objects[1].fetch_date # identities.objects[2].fetch_date
    /\ identities.raised = "ValidationError"

\* C25: scroll_to_bottom returns exactly when two consecutive height
\* measurements are equal: at the return the last two are equal and no
\* two earlier consecutive ones were, one measurement per iteration after
\* the first one, and while the call runs no two consecutive measurements
\* are equal; and on a page whose height stops growing the call comes to an
\* end.
C25_ScrollFixedPoint ==
    /\ [](LET m == scroll.measured
          IN /\ scroll.pc = "returned" =>
                    /\ Len(m) >= 2
                    /\ m[Len(m)] = m[Len(m) - 1]
                    /\ m[Len(m)] = scroll.height
                    /\ \A k \in 1 .. Len(m) - 2 : m[k] # m[k + 1]
             /\ scroll.pc \in {"scroll", "measure"} =>
                    \A k \in 1 .. Len(m) - 1 : m[k] # m[k + 1])
    /\ (scroll.pc # "idle") ~> (scroll.pc \in {"returned", "raised"})

C25_Witness ==
    /\ scroll.pc = "returned"
    /\ scroll.measured = <<1, 2, 3, 3>>

\* C26 (Spec): the stop conditions are tested after the flush of the page
\* and in the order limit, max pages: the test follows the return of
\* append_data; it leaves the loop for the limit when the limit holds, else
\* for the pages when that holds, and only otherwise goes on to the
\* next-page control.  Once the loop is left for the limit or for the
\* pages, to_next_page is not called and the browser goes nowhere: the
\* outcome of the last to_next_page, the page the browser is on and the
\* number of iterations stay what they are.
C26_StopBeforeNextPage ==
    [][/\ (pc # "check" /\ pc' = "check") =>
              /\ pc \in {"flush", "flushing"}
              /\ pc = "flush" => appendCalls' = appendCalls + 1
       /\ (pc = "check" /\ pc' # "check") =>
              IF total_listings >= listing_limit
              THEN pc' = "exiting" /\ stop' = "limit"
              ELSE IF page_n >= max_pages
              THEN pc' = "exiting" /\ stop' = "max_pages"
              ELSE pc' = "advance" /\ stop' = "none"
       /\ (next_outcome' # next_outcome \/ (pc = "advance" /\ pc' # "advance")) =>
              /\ pc = "advance"
              /\ stop = "none"
              /\ total_listings < listing_limit
              /\ page_n < max_pages
       /\ stop \in {"limit", "max_pages"} =>
              /\ next_outcome' = next_outcome
              /\ urlPag' = urlPag
              /\ iter' = iter
              /\ stop' = stop
              /\ pc' \in {"exiting", "returned"}]_vars

C26_Witness ==
    /\ pc = "returned"
    /\ stop = "limit"
    /\ page_n >= max_pages
    /\ iter = 2
    /\ next_outcome = "clicked"
    /\ urlPag = 2

\* C27 (Spec): with a finite listing_limit and max_pages a run makes
\* finitely many page iterations whatever the site serves.  The state the
\* loop carries from one iteration to the next is the page number read
\* from the URL and the scraped total, so a run is finite exactly when no
\* iteration starts where the one before it started: every turn to the
\* next page is made after a page that yielded identities or leads to
\* another page number; when the number only grows the iterations are then
\* fewer than max_pages + listing_limit.
C27_CrawlTerminates ==
    /\ [][(pc = "advance" /\ pc' = "page") =>
              \/ listings # <<>>
              \/ get_current_page_number(urlPag') # page_n]_vars
    /\ [](iter < max_pages + listing_limit)

\* The documents call s has added to the collection, over the ids 1 .. k.
RECURSIVE NewlyStored(_, _)
NewlyStored(s, k) ==
    IF k = 0 THEN 0
    ELSE (coll[k] - op[s].collStart[k]) + NewlyStored(s, k - 1)

\* C28 (SpecStorage): when append_data returns n for a batch of m documents,
\* n documents of the batch have been added to the collection and each of
\* the other m - n met a duplicate-key error, its id being stored; and a
\* call in which the server reported a write error of another kind does
\* not return a count: it ends raising StorageError.
C28_BulkWriteAccounting ==
    \A s \in Stores :
        /\ op[s].phase = "returned" =>
               /\ op[s].result = NewlyStored(s, MaxId)
               /\ Len(op[s].batch) - op[s].result = op[s].errs
               /\ \A i \in Range(op[s].batch) :
                      Occurrences(op[s].batch, i) > coll[i] - op[s].collStart[i]
                          => coll[i] > 0
        /\ op[s].rejected > 0 => op[s].phase \in {"insert", "raised"}

\* C29 (SpecFile): a FileStorage whose construction succeeded has its
\* field list, whether or not the session file existed before, so that an
\* append whose file can be written returns the number of items passed
\* and leaves them as the last rows of the file.
C29_ConstructedCanAppend ==
    fstate = "ready" =>
        /\ fieldNames
        /\ (fop.phase # "idle" /\ fop.io) =>
               /\ fop.phase = "returned"
               /\ fop.result = Len(fop.data)
               /\ Len(fileRows) >= Len(fop.data)
               /\ SubSeq(fileRows, Len(fileRows) - Len(fop.data) + 1,
                         Len(fileRows)) = fop.data

\* C30 (Spec): with 0 <= min_delay <= max_delay, whatever the base delay,
\* the jitter and the extra pause drawn, the duration _realistic_wait
\* hands to time.sleep is not negative, the wait does not raise, and no
\* run is left with the ValueError of a refused sleep.
C30_PacingNeverNegative ==
    (0 <= min_delay /\ min_delay <= max_delay) =>
        /\ \A base \in BaseDelays, jitter \in Jitters, extra \in ExtraPauses :
               /\ base + jitter + extra >= 0
               /\ realistic_wait(base, jitter, extra) = "none"
        /\ err # "ValueError"

====
